---- MODULE Spec2Model ----
(***************************************************************************)
(* Model of the analyze-workflow-dependencies tool of the Tray MCP server  *)
(* (src/src/index.ts).  The handler is a synchronous pass over a caller    *)
(* supplied export document; the model unrolls its loops into actions and  *)
(* keeps the four Maps, the local deps Set and the report being built as   *)
(* state.                                                                  *)
(*                                                                         *)
(* JavaScript values are modelled as follows.                              *)
(*   string            a sequence of one-character strings                 *)
(*   optional value    <<>> when absent (undefined), <<v>> when present    *)
(*   Set               a sequence without repetition (insertion order)     *)
(*   Map               a sequence of [key, val] entries (insertion order)  *)
(***************************************************************************)
EXTENDS Integers, Sequences, FiniteSets, TLC

\* ------------------------------------------------------------------ bounds
MaxWorkflows == 2
MaxInvocations == 2

\* ------------------------------------------------------- optional values
None == <<>>
Some(v) == <<v>>
IsSome(o) == o # <<>>
Get(o) == o[1]

\* ---------------------------------------------------------------- strings
STR_undefined == <<"u","n","d","e","f","i","n","e","d">>
STR_connector == <<"c","o","n","n","e","c","t","o","r",":">>
STR_trigger == <<"t","r","i","g","g","e","r",":">>
STR_auth == <<"a","u","t","h",":">>
STR_workflow == <<"w","o","r","k","f","l","o","w",":">>
STR_colon == <<":">>
STR_Unknown == <<"U","n","k","n","o","w","n">>
STR_NA == <<"N","/","A">>
STR_true == <<"t","r","u","e">>
STR_false == <<"f","a","l","s","e">>

\* `${v}` of an optional string: the string, or "undefined" when absent.
ToStr(o) == IF IsSome(o) THEN Get(o) ELSE STR_undefined

\* `${b}` of an optional boolean.
BoolToStr(o) == IF ~IsSome(o) THEN STR_undefined ELSE IF Get(o) THEN STR_true ELSE STR_false

\* String.prototype.startsWith
StartsWith(s, p) == Len(s) >= Len(p) /\ SubSeq(s, 1, Len(p)) = p

\* String.prototype.indexOf, 1-based; 0 when the pattern does not occur.
IndexOf(s, p) ==
  LET hits == { i \in 1..(Len(s) + 1) : i + Len(p) - 1 <= Len(s) /\ SubSeq(s, i, i + Len(p) - 1) = p }
  IN IF hits = {} THEN 0 ELSE CHOOSE i \in hits : \A j \in hits : i <= j

\* String.prototype.replace(pattern, '') with a string pattern: the first
\* occurrence only is removed.
RemoveFirst(s, p) ==
  LET i == IndexOf(s, p)
  IN IF i = 0 THEN s ELSE SubSeq(s, 1, i - 1) \o SubSeq(s, i + Len(p), Len(s))

\* A fallback that takes the absent value as it is.
OrElse_NoDefault(o, d) == ToStr(o)

\* `a || b` on optional strings: b when a is absent or the empty string.
OrElse(o, d) == IF IsSome(o) /\ Get(o) # <<>> THEN Get(o) ELSE d

\* ------------------------------------------------------------ Set and Map
Range(s) == { s[i] : i \in 1..Len(s) }

\* Set.prototype.add
SetAdd(s, v) == IF v \in Range(s) THEN s ELSE Append(s, v)

Keys(m) == { m[i].key : i \in 1..Len(m) }

\* Map.prototype.has
MapHas(m, k) == k \in Keys(m)

\* Map.prototype.get of a key the map has
MapGet(m, k) == m[CHOOSE i \in 1..Len(m) : m[i].key = k].val

\* Map.prototype.set: an existing key keeps its position.
MapSet(m, k, v) ==
  IF MapHas(m, k)
  THEN [i \in 1..Len(m) |-> IF m[i].key = k THEN [key |-> k, val |-> v] ELSE m[i]]
  ELSE Append(m, [key |-> k, val |-> v])

\* ---------------------------------------------------------- report lines
\* The report (analysisText) is kept as the sequence of its content lines,
\* one per `analysisText +=` that writes more than a line break.  sec is the
\* report section, k the line template, a and b the interpolated strings and
\* n the interpolated number.
Line(sec, k, a, b, n) == [sec |-> sec, k |-> k, a |-> a, b |-> b, n |-> n]

\* ------------------------------------------------------------ input pools
S_w1 == <<"w","1">>
S_w2 == <<"w","2">>
S_A == <<"A">>
S_B == <<"B">>
S_a1 == <<"a","1">>
S_a2 == <<"a","2">>
S_a9 == <<"a","9">>

ConnSlack == [name |-> <<"s">>, version |-> <<"9">>]
ConnHub == [name |-> <<"h">>, version |-> <<"3">>]
TrigWeb == [name |-> <<"w">>, version |-> <<"1">>]

Step(c, t, a) == [connector |-> c, trigger |-> t, authentication |-> a]
AuthRef(id) == Some([id |-> Some(id)])

\* The (steps, nestedWorkflows) contents a workflow of the export may have.
\* Nested workflow names range over the workflow names, so that a workflow
\* may nest itself or two workflows may nest each other.
Nested(name) == [workflowName |-> Some(name)]
Contents ==
  { [steps |-> Some(<< Step(Some(ConnHub), Some(TrigWeb), AuthRef(S_a9)),
                       Step(Some(ConnSlack), None, AuthRef(S_a1)) >>),
     nestedWorkflows |-> Some(<< Nested(S_A), Nested(S_B) >>)],
    [steps |-> Some(<< Step(None, Some(TrigWeb), None) >>),
     nestedWorkflows |-> Some(<<>>)],
    [steps |-> Some(<< Step(None, None, AuthRef(S_a2)), Step(None, None, None) >>),
     nestedWorkflows |-> Some(<< Nested(S_B), Nested(S_B) >>)],
    [steps |-> None,
     nestedWorkflows |-> None],
    [steps |-> Some(<< Step(Some(ConnSlack), None, AuthRef(S_a1)),
                       Step(Some(ConnSlack), Some(TrigWeb), None) >>),
     nestedWorkflows |-> Some(<< Nested(S_A) >>)] }

\* The (id, name, description, enabled) a workflow of the export may have:
\* two workflows may share an id, share a name, or lack an id.
Idents ==
  { [id |-> Some(S_w1), name |-> Some(S_A), description |-> Some(<<"d">>), enabled |-> Some(TRUE)],
    [id |-> Some(S_w2), name |-> Some(S_A), description |-> Some(<<>>), enabled |-> Some(FALSE)],
    [id |-> None, name |-> Some(S_B), description |-> None, enabled |-> None] }

Workflow(i, c) ==
  [id |-> i.id, name |-> i.name, description |-> i.description, enabled |-> i.enabled,
   steps |-> c.steps, nestedWorkflows |-> c.nestedWorkflows]

Workflows == { Workflow(i, c) : i \in Idents, c \in Contents }

SeqsUpTo(S, n) == UNION { [1..k -> S] : k \in 0..n }

\* The rest of the export document: either every collection is present
\* (authentication a1 has a name, a2 has none, a9 is not listed) or every
\* optional field is absent.
Envelopes ==
  { [project |-> Some([name |-> Some(<<"P">>)]),
     authentications |-> Some(<< [id |-> Some(S_a1), name |-> Some(<<"N">>)],
                                 [id |-> Some(S_a2), name |-> None] >>),
     connectors |-> Some(<< <<"c">>, <<"c">> >>),
     services |-> Some(<< <<"s">> >>)],
    [project |-> None, authentications |-> None, connectors |-> None, services |-> None] }

ProjectExports ==
  { [project |-> e.project, workflows |-> w, authentications |-> e.authentications,
     connectors |-> e.connectors, services |-> e.services] :
      e \in Envelopes,
      w \in {None} \cup { Some(ws) : ws \in SeqsUpTo(Workflows, MaxWorkflows) } }

\* `x || []` on an optional array
OrEmpty(o) == IF IsSome(o) THEN Get(o) ELSE <<>>

\* ------------------------------------------------------------------ state
VARIABLES
  projectExport,        \* the projectExport argument of the invocations
  pc,                   \* "idle", "index", "steps", "render", "rec"
  wi,                   \* position of the workflows.forEach in progress
  si,                   \* position of workflow.steps.forEach
  deps,                 \* const deps = new Set<string>()
  dependencyMap,        \* Map<string, Set<string>>
  connectorUsage,       \* Map<string, Set<string>>
  authenticationUsage,  \* Map<string, Set<string>>
  nestedWorkflows,      \* Map<string, string[]>
  analysisText,         \* the report built so far
  now,                  \* the clock read by new Date()
  returned              \* the reports returned by the completed invocations

\* The rest of the server: its start, its HTTP tools and the invocations of
\* the analysis that are in progress at the same time.
VARIABLES
  host,                 \* argv, the configuration file and the environment variables
  proc,                 \* position of main(): "args", "setup", "load", "check", "serving", "returned", "exited"
  globalConfig,         \* const globalConfig of main()
  fileReads,            \* number of existsSync / readFile calls made
  call,                 \* the invocation of an HTTP tool in progress
  prev,                 \* the last invocation of an HTTP tool that returned
  requestCount,         \* number of fetch calls made
  inv,                  \* the locals of the concurrent invocations of the analysis
  heap,                 \* the Maps the concurrent invocations created
  setup                 \* the locals of main() of setup.ts and what it has asked and done

analyzerVars == << projectExport, pc, wi, si, deps, dependencyMap, connectorUsage,
                   authenticationUsage, nestedWorkflows, analysisText, now, returned >>

serverVars == << host, proc, globalConfig, fileReads, call, prev, requestCount, inv, heap, setup >>

vars == << analyzerVars, serverVars >>

\* const workflows = projectExport.workflows || [];  and the three others
workflows == OrEmpty(projectExport.workflows)
authentications == OrEmpty(projectExport.authentications)
connectors == OrEmpty(projectExport.connectors)
services == OrEmpty(projectExport.services)

\* ------------------------------------------------------- the index pass
\* A connector key that leaves the version out.
ConnectorKey_NameOnly(c) == c.name

\* `${step.connector.name}:${step.connector.version}`
ConnectorKey(c) == c.name \o STR_colon \o c.version

\* `${step.trigger.name}:${step.trigger.version}`
TriggerKey(t) == t.name \o STR_colon \o t.version

\* if (!usage.has(key)) usage.set(key, new Set()); usage.get(key)!.add(name)
UsageAdd(usage, key, name) ==
  MapSet(usage, key, SetAdd(IF MapHas(usage, key) THEN MapGet(usage, key) ELSE <<>>, name))

\* The three deps.add of one step, in source order.
DepsAfterStep(d, step) ==
  LET d1 == IF IsSome(step.connector)
            THEN SetAdd(d, STR_connector \o ConnectorKey(Get(step.connector))) ELSE d
      d2 == IF IsSome(step.trigger)
            THEN SetAdd(d1, STR_trigger \o TriggerKey(Get(step.trigger))) ELSE d1
      d3 == IF IsSome(step.authentication)
            THEN SetAdd(d2, STR_auth \o ToStr(Get(step.authentication).id)) ELSE d2
  IN d3

\* A connector index that cross-references triggers as well.
ConnectorUsageAfterStep_WithTriggers(usage, step, name) ==
  LET u == IF IsSome(step.connector)
           THEN UsageAdd(usage, ConnectorKey(Get(step.connector)), name)
           ELSE usage
  IN IF IsSome(step.trigger) THEN UsageAdd(u, TriggerKey(Get(step.trigger)), name) ELSE u

ConnectorUsageAfterStep(usage, step, name) ==
  IF IsSome(step.connector)
  THEN UsageAdd(usage, ConnectorKey(Get(step.connector)), name)
  ELSE usage

\* An authentication index keyed by the dependency key "auth:<id>".
AuthenticationUsageAfterStep_PrefixedKey(usage, step, name) ==
  IF IsSome(step.authentication)
  THEN UsageAdd(usage, Some(STR_auth \o ToStr(Get(step.authentication).id)), name)
  ELSE usage

AuthenticationUsageAfterStep(usage, step, name) ==
  IF IsSome(step.authentication)
  THEN UsageAdd(usage, Get(step.authentication).id, name)
  ELSE usage

\* A test that takes an empty nestedWorkflows list as well.
HasNested_AnyList(w) == IsSome(w.nestedWorkflows)

\* workflow.nestedWorkflows && workflow.nestedWorkflows.length > 0
HasNested(w) == IsSome(w.nestedWorkflows) /\ Len(Get(w.nestedWorkflows)) > 0

\* workflow.nestedWorkflows.map((nw) => nw.workflowName)
NestedNames(w) == [i \in 1..Len(Get(w.nestedWorkflows)) |-> Get(w.nestedWorkflows)[i].workflowName]

RECURSIVE AddAll(_, _)
AddAll(d, items) ==
  IF items = <<>> THEN d ELSE AddAll(SetAdd(d, Head(items)), Tail(items))

\* workflow.nestedWorkflows.forEach(nested => deps.add(`workflow:${nested.workflowName}`))
DepsAfterNested(d, w) ==
  IF HasNested(w)
  THEN AddAll(d, [i \in 1..Len(NestedNames(w)) |-> STR_workflow \o ToStr(NestedNames(w)[i])])
  ELSE d

NestedAfterWorkflow(nested, w) ==
  IF HasNested(w) THEN MapSet(nested, w.id, NestedNames(w)) ELSE nested

\* ------------------------------------------------------------ the report
RECURSIVE Flatten(_)
Flatten(ss) == IF ss = <<>> THEN <<>> ELSE Head(ss) \o Flatten(Tail(ss))

\* authentications.find((a) => a.id === id): the first match, if any.
FindAuth(auths, id) ==
  LET hits == { i \in 1..Len(auths) : auths[i].id = id }
  IN IF hits = {} THEN None ELSE Some(auths[CHOOSE i \in hits : \A j \in hits : i <= j])

\* A display that has no fallback to the id.
AuthDisplay_NoFallback(auths, id) ==
  LET auth == FindAuth(auths, id)
  IN OrElse(IF IsSome(auth) THEN Get(auth).name ELSE None, STR_Unknown)

\* `${auth?.name || authId}`, authId being a string or undefined
AuthDisplay(auths, id) ==
  LET auth == FindAuth(auths, id)
  IN OrElse(IF IsSome(auth) THEN Get(auth).name ELSE None, ToStr(id))

\* The title, date, project and Summary lines.
HeaderLines(export, time) ==
  << Line("header", "title", <<>>, <<>>, 0),
     Line("header", "date", <<>>, <<>>, time),
     Line("header", "project",
          OrElse(IF IsSome(export.project) THEN Get(export.project).name ELSE None, STR_Unknown),
          <<>>, 0),
     Line("summary", "heading", <<>>, <<>>, 0),
     Line("summary", "workflows", <<>>, <<>>, Len(OrEmpty(export.workflows))),
     Line("summary", "connectors", <<>>, <<>>, Len(OrEmpty(export.connectors))),
     Line("summary", "services", <<>>, <<>>, Len(OrEmpty(export.services))),
     Line("summary", "authentications", <<>>, <<>>, Len(OrEmpty(export.authentications))),
     Line("detail", "heading", <<>>, <<>>, 0) >>

\* dependencyMap.get(workflow.id) || new Set()
DepsOf(depMap, w) == IF MapHas(depMap, w.id) THEN MapGet(depMap, w.id) ELSE <<>>

\* One iteration of the second workflows.forEach.
DetailLines(w, depMap, nested, auths) ==
  LET d == DepsOf(depMap, w)
      IsConnector(x) == StartsWith(x, STR_connector)
      IsAuth(x) == StartsWith(x, STR_auth)
      connectorDeps == SelectSeq(d, IsConnector)
      authDeps == SelectSeq(d, IsAuth)
      nestedNames == IF MapHas(nested, w.id) THEN MapGet(nested, w.id) ELSE <<>>
  IN << Line("detail", "workflow", ToStr(w.name), ToStr(w.id), 0),
        Line("detail", "description", OrElse(w.description, STR_NA), <<>>, 0),
        Line("detail", "enabled", BoolToStr(w.enabled), <<>>, 0),
        Line("detail", "steps", <<>>, <<>>, Len(OrEmpty(w.steps))),
        Line("detail", "totalDependencies", <<>>, <<>>, Len(d)) >>
     \o (IF Len(connectorDeps) > 0
         THEN << Line("detail", "connectorsUsed", <<>>, <<>>, 0) >>
              \o [i \in 1..Len(connectorDeps) |->
                   Line("detail", "connector", RemoveFirst(connectorDeps[i], STR_connector), <<>>, 0)]
         ELSE <<>>)
     \o (IF Len(authDeps) > 0
         THEN << Line("detail", "authenticationsRequired", <<>>, <<>>, 0) >>
              \o [i \in 1..Len(authDeps) |->
                   LET authId == RemoveFirst(authDeps[i], STR_auth)
                   IN Line("detail", "authentication", AuthDisplay(auths, Some(authId)), authId, 0)]
         ELSE <<>>)
     \o (IF MapHas(nested, w.id)
         THEN << Line("detail", "nestedWorkflows", <<>>, <<>>, 0) >>
              \o [i \in 1..Len(nestedNames) |->
                   Line("detail", "nested", ToStr(nestedNames[i]), <<>>, 0)]
         ELSE <<>>)

\* Array.prototype.sort((a, b) => b[1].size - a[1].size): stable, descending
\* in the size of the entry's Set.
InsertBySize(sorted, e) ==
  LET k == Cardinality({ i \in 1..Len(sorted) : Len(sorted[i].val) >= Len(e.val) })
  IN SubSeq(sorted, 1, k) \o << e >> \o SubSeq(sorted, k + 1, Len(sorted))

RECURSIVE SortBySizeDesc(_)
SortBySizeDesc(entries) ==
  IF entries = <<>> THEN <<>>
  ELSE InsertBySize(SortBySizeDesc(SubSeq(entries, 1, Len(entries) - 1)), entries[Len(entries)])

\* The Connector Usage block of the Cross-Reference Analysis.
ConnectorUsageLines(usage) ==
  IF Len(usage) > 0
  THEN LET sortedConnectors == SortBySizeDesc(usage)
       IN << Line("xref", "connectorUsage", <<>>, <<>>, 0) >>
          \o Flatten([i \in 1..Len(sortedConnectors) |->
               << Line("xref", "connector", sortedConnectors[i].key, <<>>, Len(sortedConnectors[i].val)) >>
               \o [j \in 1..Len(sortedConnectors[i].val) |->
                    Line("xref", "connectorUser", ToStr(sortedConnectors[i].val[j]), <<>>, 0)]])
  ELSE <<>>

\* The Authentication Usage block of the Cross-Reference Analysis.
AuthenticationUsageLines(usage, auths) ==
  IF Len(usage) > 0
  THEN LET sortedAuths == SortBySizeDesc(usage)
       IN << Line("xref", "authenticationUsage", <<>>, <<>>, 0) >>
          \o Flatten([i \in 1..Len(sortedAuths) |->
               << Line("xref", "authentication", AuthDisplay(auths, sortedAuths[i].key),
                       <<>>, Len(sortedAuths[i].val)) >>
               \o [j \in 1..Len(sortedAuths[i].val) |->
                    Line("xref", "authenticationUser", ToStr(sortedAuths[i].val[j]), <<>>, 0)]])
  ELSE <<>>

\* Recommendations that put the connector checklist before the nested
\* workflow warning.
RecommendationLines_ConnectorsFirst(nested, cUsage, aUsage, auths) ==
  << Line("rec", "heading", <<>>, <<>>, 0) >>
  \o (IF Len(cUsage) > 0
      THEN << Line("rec", "connectorChecklist", <<>>, <<>>, 0) >>
           \o [i \in 1..Len(cUsage) |-> Line("rec", "verifyConnector", cUsage[i].key, <<>>, 0)]
      ELSE <<>>)
  \o (IF Len(nested) > 0
      THEN << Line("rec", "nestedWarning", <<>>, <<>>, Len(nested)),
              Line("rec", "ensureNestedIncluded", <<>>, <<>>, 0),
              Line("rec", "verifyExecutionOrder", <<>>, <<>>, 0) >>
      ELSE <<>>)
  \o (IF Len(aUsage) > 0
      THEN << Line("rec", "authenticationChecklist", <<>>, <<>>, 0) >>
           \o [i \in 1..Len(aUsage) |->
                Line("rec", "recreateAuthentication", AuthDisplay(auths, aUsage[i].key), <<>>, 0)]
      ELSE <<>>)

\* An authentication checklist written from the authentications the export
\* lists, used or not.
RecommendationLines_ListedAuthentications(nested, cUsage, aUsage, auths) ==
  << Line("rec", "heading", <<>>, <<>>, 0) >>
  \o (IF Len(nested) > 0
      THEN << Line("rec", "nestedWarning", <<>>, <<>>, Len(nested)),
              Line("rec", "ensureNestedIncluded", <<>>, <<>>, 0),
              Line("rec", "verifyExecutionOrder", <<>>, <<>>, 0) >>
      ELSE <<>>)
  \o (IF Len(cUsage) > 0
      THEN << Line("rec", "connectorChecklist", <<>>, <<>>, 0) >>
           \o [i \in 1..Len(cUsage) |-> Line("rec", "verifyConnector", cUsage[i].key, <<>>, 0)]
      ELSE <<>>)
  \o (IF Len(auths) > 0
      THEN << Line("rec", "authenticationChecklist", <<>>, <<>>, 0) >>
           \o [i \in 1..Len(auths) |->
                Line("rec", "recreateAuthentication", AuthDisplay(auths, auths[i].id), <<>>, 0)]
      ELSE <<>>)

\* The Migration Recommendations section.
RecommendationLines(nested, cUsage, aUsage, auths) ==
  << Line("rec", "heading", <<>>, <<>>, 0) >>
  \o (IF Len(nested) > 0
      THEN << Line("rec", "nestedWarning", <<>>, <<>>, Len(nested)),
              Line("rec", "ensureNestedIncluded", <<>>, <<>>, 0),
              Line("rec", "verifyExecutionOrder", <<>>, <<>>, 0) >>
      ELSE <<>>)
  \o (IF Len(cUsage) > 0
      THEN << Line("rec", "connectorChecklist", <<>>, <<>>, 0) >>
           \o [i \in 1..Len(cUsage) |-> Line("rec", "verifyConnector", cUsage[i].key, <<>>, 0)]
      ELSE <<>>)
  \o (IF Len(aUsage) > 0
      THEN << Line("rec", "authenticationChecklist", <<>>, <<>>, 0) >>
           \o [i \in 1..Len(aUsage) |->
                Line("rec", "recreateAuthentication", AuthDisplay(auths, aUsage[i].key), <<>>, 0)]
      ELSE <<>>)

\* ------------------------------------------------------------ HTTP tools
MaxRequests == 2

TRAY_API_BASE == "https://api.tray.io"
TRAY_EU_API_BASE == "https://api.eu1.tray.io"
TRAY_APAC_API_BASE == "https://api.ap1.tray.io"

\* The tools that send one request, by the shape of their handler.
ListTools50 ==
  { "list-connectors", "get-connector-operations", "list-triggers", "list-workspaces",
    "list-authentications", "get-trigger-operations", "list-projects", "list-project-versions" }
ListTools == ListTools50 \cup { "get-subscriptions" }
GetTools == { "get-service-environments", "export-project-version" }
PostTools ==
  { "call-connector", "create-authentication", "create-subscription",
    "get-project-import-requirements", "preview-project-import" }
PatchTools == { "update-subscription" }
DeleteTools == { "delete-subscription", "delete-authentication" }
HttpTools == ListTools \cup GetTools \cup PostTools \cup PatchTools \cup DeleteTools

\* The method option of the tool's makeTrayRequest call.
MethodOf(tool) ==
  IF tool \in PostTools THEN "POST"
  ELSE IF tool \in PatchTools THEN "PATCH"
  ELSE IF tool \in DeleteTools THEN "DELETE"
  ELSE "GET"

\* The name, endpoint and input arguments of update-subscription, each
\* optional; input is an object, written as its JSON text.
Update(name, endpoint, input) == [name |-> name, endpoint |-> endpoint, input |-> input]
NoUpdate == Update(None, None, None)

\* The arguments of an invocation: region, limit and cursor are optional, a
\* and b are the tool's own strings (a name and a version, or an id),
\* update holds the name, endpoint and input given to update-subscription.
Args(region, limit, cursor, update) ==
  [region |-> region, limit |-> limit, cursor |-> cursor, a |-> "x", b |-> "1",
   name |-> update.name, endpoint |-> update.endpoint, input |-> update.input]

\* async ({ ..., region = "us" }) =>
RegionOf(args) == IF IsSome(args.region) THEN Get(args.region) ELSE "us"

\* async ({ ..., limit = 50, ... }) =>, 10 in get-subscriptions
LimitOf(tool, args) ==
  IF IsSome(args.limit) THEN Get(args.limit)
  ELSE IF tool = "get-subscriptions" THEN 10 ELSE 50

\* A string or optional string is truthy when present and not empty.
Truthy(o) == IsSome(o) /\ Get(o) # ""

\* A payload that takes every supplied argument, the empty string included.
PayloadOf_AnySupplied(args) ==
  (IF IsSome(args.name) THEN << [k |-> "name", v |-> Get(args.name)] >> ELSE <<>>)
  \o (IF IsSome(args.endpoint) THEN << [k |-> "endpoint", v |-> Get(args.endpoint)] >> ELSE <<>>)
  \o (IF IsSome(args.input) THEN << [k |-> "input", v |-> Get(args.input)] >> ELSE <<>>)

\* const payload = {}; if (name) payload.name = name; if (endpoint) ...;
\* if (input) payload.input = input;   An object is truthy, the empty one
\* included.
PayloadOf(args) ==
  (IF Truthy(args.name) THEN << [k |-> "name", v |-> Get(args.name)] >> ELSE <<>>)
  \o (IF Truthy(args.endpoint) THEN << [k |-> "endpoint", v |-> Get(args.endpoint)] >> ELSE <<>>)
  \o (IF IsSome(args.input) THEN << [k |-> "input", v |-> Get(args.input)] >> ELSE <<>>)

\* The body option of the tool's makeTrayRequest call: the payload of
\* update-subscription, the tool's own payload (kept as one field) in the
\* POST tools, none otherwise.
BodyOf(tool, args) ==
  IF tool \in PatchTools THEN Some(PayloadOf(args))
  ELSE IF tool \in PostTools THEN Some(<< [k |-> "payload", v |-> tool] >>)
  ELSE None

\* The path of the tool's URL, after /core/v1.
PathOf(tool, args) ==
  CASE tool = "list-connectors" -> << "connectors" >>
    [] tool = "get-connector-operations" -> << "connectors", args.a, "versions", args.b, "operations" >>
    [] tool = "call-connector" -> << "connectors", args.a, "versions", args.b, "call" >>
    [] tool = "list-triggers" -> << "triggers" >>
    [] tool = "get-service-environments" -> << "services", args.a, "versions", args.b, "environments" >>
    [] tool = "create-authentication" -> << "authentications" >>
    [] tool = "list-workspaces" -> << "workspaces" >>
    [] tool = "create-subscription" -> << "subscriptions" >>
    [] tool = "get-subscriptions" -> << "subscriptions" >>
    [] tool = "update-subscription" -> << "subscriptions", args.a >>
    [] tool = "delete-subscription" -> << "subscriptions", args.a >>
    [] tool = "delete-authentication" -> << "authentications", args.a >>
    [] tool = "list-authentications" -> << "authentications" >>
    [] tool = "get-trigger-operations" -> << "triggers", args.a, "versions", args.b, "operations" >>
    [] tool = "list-projects" -> << "projects" >>
    [] tool = "list-project-versions" -> << "projects", args.a, "versions" >>
    [] tool = "export-project-version" -> << "projects", args.a, "versions", args.b, "export" >>
    [] tool = "get-project-import-requirements" -> << "projects", args.a, "imports", "requirements" >>
    [] tool = "preview-project-import" -> << "projects", args.a, "imports", "previews" >>

\* A query that carries the cursor argument whenever one was supplied, the
\* empty string included.
QueryOf_AnyCursor(tool, args) ==
  IF tool \in ListTools
  THEN (IF tool = "list-projects" THEN << [k |-> "workspaceId", v |-> args.a] >> ELSE <<>>)
       \o << [k |-> "limit", v |-> LimitOf(tool, args)] >>
       \o (IF IsSome(args.cursor) THEN << [k |-> "cursor", v |-> Get(args.cursor)] >> ELSE <<>>)
  ELSE <<>>

\* let url = `...?limit=${limit}`; if (cursor) { url += `&cursor=${cursor}`; }
QueryOf(tool, args) ==
  IF tool \in ListTools
  THEN (IF tool = "list-projects" THEN << [k |-> "workspaceId", v |-> args.a] >> ELSE <<>>)
       \o << [k |-> "limit", v |-> LimitOf(tool, args)] >>
       \o (IF Truthy(args.cursor) THEN << [k |-> "cursor", v |-> Get(args.cursor)] >> ELSE <<>>)
  ELSE <<>>

\* A base URL taken from the region of the loaded configuration.
BaseUrl_Configured(region) ==
  IF globalConfig.region = Some("eu") THEN TRAY_EU_API_BASE
  ELSE IF globalConfig.region = Some("apac") THEN TRAY_APAC_API_BASE
  ELSE TRAY_API_BASE

\* let baseUrl = TRAY_API_BASE; if (region === "eu") ...; if (region === "apac") ...
BaseUrl(region) ==
  IF region = "apac" THEN TRAY_APAC_API_BASE
  ELSE IF region = "eu" THEN TRAY_EU_API_BASE
  ELSE TRAY_API_BASE

\* The fetch call of makeTrayRequest for an invocation.
RequestOf(tool, args) ==
  [base |-> BaseUrl(RegionOf(args)), path |-> PathOf(tool, args), query |-> QueryOf(tool, args),
   method |-> MethodOf(tool), body |-> BodyOf(tool, args)]

\* The ways the fetch of a request ends: it rejects, the status is not ok,
\* the body is not JSON, or the body is the JSON value data (None for the
\* JSON value null).
NetworkFailure == [kind |-> "network", data |-> None]
HttpError == [kind |-> "status", data |-> None]
BadBody == [kind |-> "body", data |-> None]
Json(data) == [kind |-> "json", data |-> data]

Data(elements, cursor, hasMore, totalCount) ==
  [elements |-> elements, cursor |-> cursor, hasMore |-> hasMore, totalCount |-> totalCount]

Two == Some(<< "e", "e" >>)
Pages ==
  { Data(Two, Some("n"), Some(TRUE), Some(7)),
    Data(Two, None, Some(FALSE), Some(7)),
    Data(Two, Some("n"), None, None),
    Data(Two, None, None, None),
    Data(Two, Some(""), Some(TRUE), None),
    Data(Two, Some("n"), Some(FALSE), None),
    Data(Two, Some("n"), None, Some(0)),
    Data(Two, None, None, Some(7)),
    Data(Two, None, Some(TRUE), None),
    Data(Some(<<>>), Some("n"), Some(TRUE), Some(7)),
    Data(Some(<<>>), None, None, None),
    Data(None, None, None, Some(0)) }

Outcomes(tool) ==
  { NetworkFailure, HttpError, BadBody, Json(None) }
  \cup (IF tool \in ListTools THEN { Json(Some(d)) : d \in Pages }
        ELSE { Json(Some(Data(None, None, None, None))) })

\* A makeTrayRequest whose catch lets the error of a status that is not ok
\* through.
makeTrayRequest_Rethrow(outcome) ==
  [thrown |-> outcome.kind = "status",
   value |-> IF outcome.kind = "json" THEN outcome.data ELSE None]

\* try { fetch; if (!response.ok) throw; return await response.json() }
\* catch { return null }
makeTrayRequest(outcome) ==
  [thrown |-> FALSE,
   value |-> IF outcome.kind = "json" THEN outcome.data ELSE None]

\* The text of the tool's failure branch.
FailedText(tool, args) ==
  CASE tool = "list-connectors" -> << "Failed to", " retrieve connectors from Tray API" >>
    [] tool = "get-connector-operations" ->
         << "Failed to", " retrieve operations for connector ", args.a, " v", args.b >>
    [] tool = "call-connector" ->
         << "Failed to", " execute operation ", "op", " on connector ", args.a, " v", args.b >>
    [] tool = "list-triggers" -> << "Failed to", " retrieve triggers from Tray API" >>
    [] tool = "get-service-environments" ->
         << "Failed to", " retrieve service environments for ", args.a, " v", args.b >>
    [] tool = "create-authentication" -> << "Failed to", " create authentication" >>
    [] tool = "list-workspaces" -> << "Failed to", " retrieve workspaces from Tray API" >>
    [] tool = "create-subscription" -> << "Failed to", " create subscription" >>
    [] tool = "get-subscriptions" -> << "Failed to", " retrieve subscriptions" >>
    [] tool = "update-subscription" -> << "Failed to", " update subscription ", args.a >>
    [] tool = "delete-subscription" -> << "Failed to", " delete subscription" >>
    [] tool = "delete-authentication" -> << "Failed to", " delete authentication" >>
    [] tool = "list-authentications" -> << "Failed to", " retrieve authentications from Tray API" >>
    [] tool = "get-trigger-operations" ->
         << "Failed to", " retrieve operations for trigger ", args.a, " v", args.b >>
    [] tool = "list-projects" -> << "Failed to", " retrieve projects for workspace ", args.a >>
    [] tool = "list-project-versions" -> << "Failed to", " retrieve versions for project ", args.a >>
    [] tool = "export-project-version" ->
         << "Failed to", " export project ", args.a, " version ", args.b >>
    [] tool = "get-project-import-requirements" ->
         << "Failed to", " analyze import requirements for project ", args.a >>
    [] tool = "preview-project-import" -> << "Failed to", " preview import for project ", args.a >>

\* if (data.cursor) { Next cursor; if (data.hasMore !== undefined) Has more;
\*                    if (data.totalCount !== undefined) Total count }
PaginationInfo(data) ==
  IF Truthy(data.cursor)
  THEN << [k |-> "cursor", v |-> data.cursor] >>
       \o (IF IsSome(data.hasMore) THEN << [k |-> "hasMore", v |-> data.hasMore] >> ELSE <<>>)
       \o (IF IsSome(data.totalCount) THEN << [k |-> "totalCount", v |-> data.totalCount] >> ELSE <<>>)
  ELSE <<>>

\* The tool result: kind tells the branch of the handler that returned,
\* text is the message of a failure, found the number of elements listed,
\* dump the value written with JSON.stringify, pagination the lines of the
\* Pagination block.
Result(kind, text, found, dump, pagination) ==
  [kind |-> kind, text |-> text, found |-> found, dump |-> dump, pagination |-> pagination]

\* The handler of an HTTP tool from the return of makeTrayRequest on.
ToolReturn(tool, args, r) ==
  IF r.thrown THEN Result("exception", <<>>, 0, None, <<>>)
  ELSE IF ~IsSome(r.value) THEN Result("failed", FailedText(tool, args), 0, None, <<>>)
  ELSE LET data == Get(r.value)
           elements == OrEmpty(data.elements)
       IN IF tool \in DeleteTools THEN Result("ok", <<>>, 0, None, <<>>)
          ELSE IF tool \in ListTools50
          THEN IF Len(elements) = 0
               THEN Result("empty", <<>>, 0, None, <<>>)
               ELSE Result("ok", <<>>, Len(elements), None, PaginationInfo(data))
          ELSE IF tool = "get-subscriptions"
          THEN Result("ok", <<>>, 0, Some(data), PaginationInfo(data))
          ELSE Result("ok", <<>>, 0, Some(data), <<>>)

\* The invocations of the HTTP tools: every tool with every region, the
\* list tools with and without limit and cursor, update-subscription with
\* nothing, with empty strings, with an empty input object and with one,
\* two or three things to update.
Regions == { None, Some("us"), Some("eu"), Some("apac") }
Updates ==
  { Update(Some(""), Some(""), None),
    Update(None, Some("e"), None),
    Update(None, None, Some("{}")),
    Update(Some("n"), Some(""), Some("{k}")),
    Update(Some(""), Some("e"), Some("{k}")),
    Update(Some("n"), Some("e"), Some("{k}")) }
Invocations ==
  { [tool |-> t, args |-> a] :
      t \in ListTools,
      a \in { Args(None, None, None, NoUpdate), Args(Some("us"), Some(5), Some("c"), NoUpdate),
              Args(Some("eu"), Some(0), Some(""), NoUpdate), Args(Some("apac"), None, Some("c"), NoUpdate) } }
  \cup { [tool |-> t, args |-> Args(r, None, None, NoUpdate)] :
           t \in HttpTools \ (ListTools \cup PatchTools), r \in Regions }
  \cup { [tool |-> "update-subscription", args |-> Args(r, None, None, u)] :
           r \in Regions, u \in { NoUpdate, Update(Some("n"), None, None) } }
  \cup { [tool |-> "update-subscription", args |-> Args(None, None, None, u)] : u \in Updates }

NoCall == [tool |-> "none"]

\* A tool is invoked: the handler runs up to the await of fetch.
\* update-subscription returns at once when nothing is to be updated.
InvokeTool(pool) ==
  /\ proc = "serving"
  /\ call = NoCall
  /\ requestCount < MaxRequests
  /\ \E i \in pool :
       IF i.tool = "update-subscription" /\ Len(PayloadOf(i.args)) = 0
       THEN /\ prev' = [tool |-> i.tool, args |-> i.args, request |-> None, outcome |-> None,
                        result |-> Result("noparams", <<>>, 0, None, <<>>)]
            /\ UNCHANGED << call, requestCount >>
       ELSE /\ call' = [tool |-> i.tool, args |-> i.args, request |-> RequestOf(i.tool, i.args)]
            /\ requestCount' = requestCount + 1
            /\ UNCHANGED prev
  /\ UNCHANGED << analyzerVars, setup, host, proc, globalConfig, fileReads, inv, heap >>

ToolInvoke == InvokeTool(Invocations)

\* A handler that sends the request again when the first one failed.
ToolRespond_Retry ==
  /\ call # NoCall
  /\ \E o \in Outcomes(call.tool) :
       IF o.kind # "json"
       THEN requestCount' = requestCount + 1 /\ UNCHANGED << call, prev >>
       ELSE /\ prev' = [tool |-> call.tool, args |-> call.args, request |-> Some(call.request),
                        outcome |-> Some(o),
                        result |-> ToolReturn(call.tool, call.args, makeTrayRequest(o))]
            /\ call' = NoCall
            /\ UNCHANGED requestCount
  /\ UNCHANGED << analyzerVars, setup, host, proc, globalConfig, fileReads, inv, heap >>

\* The fetch of the invocation in progress ends and the handler returns.
ToolRespond ==
  /\ call # NoCall
  /\ \E o \in Outcomes(call.tool) :
       prev' = [tool |-> call.tool, args |-> call.args, request |-> Some(call.request),
                outcome |-> Some(o),
                result |-> ToolReturn(call.tool, call.args, makeTrayRequest(o))]
  /\ call' = NoCall
  /\ UNCHANGED << analyzerVars, setup, host, proc, globalConfig, fileReads, requestCount, inv, heap >>

\* ------------------------------------------------------------ the start
\* A configuration: the tokens, the region and the workspace id, each
\* optional.
Config(masterToken, userToken, region) ==
  [masterToken |-> masterToken, userToken |-> userToken, region |-> region, workspaceId |-> None]

\* The configuration with a workspace id.
WithWorkspace(config, workspaceId) == [config EXCEPT !.workspaceId = workspaceId]

Configs ==
  { Config(Some("m"), None, Some("eu")),
    Config(None, Some("u"), None),
    Config(Some("m"), Some("u"), Some("us")),
    Config(None, None, Some("apac")) }

\* ~/.config/tray-mcp-server/config.json: absent, present but unreadable or
\* not JSON, or holding a configuration.
NoFile == [exists |-> FALSE, valid |-> FALSE, config |-> Config(None, None, None)]
BrokenFile == [exists |-> TRUE, valid |-> FALSE, config |-> Config(None, None, None)]
File(config) == [exists |-> TRUE, valid |-> TRUE, config |-> config]
Files == { NoFile, BrokenFile } \cup { File(c) : c \in Configs }

\* TRAY_MASTER_TOKEN, TRAY_USER_TOKEN, TRAY_REGION and TRAY_WORKSPACE_ID
Environments ==
  { Config(None, None, None),
    Config(Some("M"), None, Some("apac")),
    Config(None, Some("U"), None),
    WithWorkspace(Config(Some("M"), Some("U"), Some("eu")), Some("W")),
    Config(Some(""), None, None) }

\* process.argv.slice(2)
Argvs ==
  { <<>>, << "--setup" >>, << "--help" >>, << "-h" >>, << "--help", "--setup" >>, << "--verbose" >> }

\* Array.prototype.includes
Includes(args, x) == x \in Range(args)

Hosts ==
  { [argv |-> a, file |-> f, env |-> e] : a \in Argvs, f \in Files, e \in Environments }

NoConfig == Config(None, None, None)

\* The return of loadConfiguration: the parsed file when it exists and
\* parses, the environment variables otherwise.
Loaded(h) ==
  IF h.file.exists /\ h.file.valid
  THEN h.file.config
  ELSE WithWorkspace(Config(h.env.masterToken, h.env.userToken,
                            Some(IF IsSome(h.env.region) THEN Get(h.env.region) ELSE "us")),
                     h.env.workspaceId)

\* A handleCommandLineArgs that prints the usage and lets main go on.
HandleArgs_HelpGoesOn ==
  /\ proc = "args"
  /\ ~Includes(host.argv, "--setup")
  /\ proc' = "load"
  /\ UNCHANGED << analyzerVars, setup, host, globalConfig, fileReads, call, prev, requestCount, inv, heap >>

\* handleCommandLineArgs without --setup: --help or -h prints the usage and
\* main returns, anything else goes on to the configuration.
HandleArgs ==
  /\ proc = "args"
  /\ ~Includes(host.argv, "--setup")
  /\ proc' = IF Includes(host.argv, "--help") \/ Includes(host.argv, "-h") THEN "returned" ELSE "load"
  /\ UNCHANGED << analyzerVars, setup, host, globalConfig, fileReads, call, prev, requestCount, inv, heap >>

\* handleCommandLineArgs with --setup: the interactive setup runs, which
\* saves a configuration when a token was entered and leaves the file
\* otherwise, and main returns.
RunSetup ==
  /\ proc = "args"
  /\ Includes(host.argv, "--setup")
  /\ \E f \in { host.file } \cup { File(c) : c \in { c \in Configs : IsSome(c.masterToken) \/ IsSome(c.userToken) } } :
       host' = [host EXCEPT !.file = f]
  /\ fileReads' = fileReads + 1
  /\ proc' = "returned"
  /\ UNCHANGED << analyzerVars, setup, globalConfig, call, prev, requestCount, inv, heap >>

\* const globalConfig = await loadConfiguration();
LoadConfiguration ==
  /\ proc = "load"
  /\ globalConfig' = Loaded(host)
  /\ fileReads' = fileReads + (IF host.file.exists THEN 2 ELSE 1)
  /\ proc' = "check"
  /\ UNCHANGED << analyzerVars, setup, host, call, prev, requestCount, inv, heap >>

\* if (!globalConfig.masterToken && !globalConfig.userToken) { print the
\* instructions; process.exit(1) }  await startServer();
CheckTokens ==
  /\ proc = "check"
  /\ proc' = IF ~Truthy(globalConfig.masterToken) /\ ~Truthy(globalConfig.userToken)
             THEN "exited" ELSE "serving"
  /\ UNCHANGED << analyzerVars, setup, host, globalConfig, fileReads, call, prev, requestCount, inv, heap >>

\* ------------------------------------------------------------ the setup
\* The answers typed at the prompts are strings of characters, and so are
\* the tokens and the workspace id the setup writes.

\* String.prototype.trim, for the blank
RECURSIVE TrimStart(_)
TrimStart(s) == IF s # <<>> /\ Head(s) = " " THEN TrimStart(Tail(s)) ELSE s
RECURSIVE TrimEnd(_)
TrimEnd(s) == IF s # <<>> /\ s[Len(s)] = " " THEN TrimEnd(SubSeq(s, 1, Len(s) - 1)) ELSE s
Trim(s) == TrimEnd(TrimStart(s))

\* String.prototype.toLowerCase, for the letters of the answers
LowerChar(c) ==
  CASE c = "Y" -> "y"
    [] c = "E" -> "e"
    [] c = "S" -> "s"
    [] c = "N" -> "n"
    [] OTHER -> c
ToLowerCase(s) == [i \in 1..Len(s) |-> LowerChar(s[i])]

\* The answers to a (y/N) question, to the region choice, to a token prompt
\* and to the workspace id prompt.
YesNoAnswers == { <<>>, << "y" >>, << "Y" >>, << "n" >>, << "y", "e", "s" >> }
RegionAnswers == { <<>>, << "2" >>, << "3" >>, << " ", "2" >> }
TokenAnswers == { <<>>, << " " >>, << "t" >>, << " ", "t", " " >> }
WorkspaceAnswers == { <<>>, << " " >>, << "w" >> }

\* const regionMap = { '1': 'us', '2': 'eu', '3': 'apac' };
\* config.region = regionMap[regionChoice] || 'us'
RegionMap(regionChoice) ==
  CASE regionChoice = << "1" >> -> "us"
    [] regionChoice = << "2" >> -> "eu"
    [] regionChoice = << "3" >> -> "apac"
    [] OTHER -> "us"

\* const baseUrls = { us: ..., eu: ..., apac: ... } of validateToken
baseUrls(region) ==
  CASE region = "us" -> "https://api.tray.io"
    [] region = "eu" -> "https://api.eu1.tray.io"
    [] region = "apac" -> "https://api.ap1.tray.io"

\* `config.masterToken || config.userToken` and the like, on strings of
\* characters.
NonEmpty(o) == IsSome(o) /\ Get(o) # <<>>
HasTokens(config) == NonEmpty(config.masterToken) \/ NonEmpty(config.userToken)

\* The configuration files the setup may find: none, one that does not
\* parse, one with both tokens and a workspace id, one with a user token
\* only, one without a token.
StoredConfigs ==
  { WithWorkspace(Config(Some(<< "o" >>), Some(<< "p" >>), Some("eu")), Some(<< "v" >>)),
    Config(None, Some(<< "p" >>), Some("apac")),
    Config(None, None, Some("eu")) }
SetupFiles == { NoFile, BrokenFile } \cup { File(c) : c \in StoredConfigs }

\* The setup is started by index.ts --setup, or setup.js is run itself, with
\* or without --auto-setup.
SetupHosts ==
  { [argv |-> a, file |-> f, env |-> NoConfig] :
      a \in { << "--setup" >>, <<>>, << "--auto-setup" >> }, f \in SetupFiles }

\* loadExistingConfig: the parsed file, {} when there is none or it does not
\* parse.
loadExistingConfig(file) == IF file.exists /\ file.valid THEN file.config ELSE NoConfig

\* The existsSync and readFile calls loadExistingConfig makes on the file.
ReadsOf(file) == IF file.exists THEN 2 ELSE 1

NoSetup == [pc |-> "none"]

\* The setup at its start: before is the configuration file it found.
SetupAt(file) ==
  [pc |-> "start", kind |-> "master", before |-> file, config |-> NoConfig, pending |-> <<>>,
   asked |-> <<>>, validated |-> <<>>, writes |-> 0]

\* A question that was asked and its answer.
Asked(q, kind, a) == [q |-> q, kind |-> kind, a |-> a]

\* config.masterToken = token, config.userToken = token
SetToken(config, kind, token) ==
  IF kind = "master" THEN [config EXCEPT !.masterToken = Some(token)]
  ELSE [config EXCEPT !.userToken = Some(token)]

\* After the master token block comes the user token block, after that the
\* workspace id.
AfterToken(st) ==
  IF st.kind = "master" THEN [st EXCEPT !.pc = "token", !.kind = "user", !.pending = <<>>]
  ELSE [st EXCEPT !.pc = "workspace", !.pending = <<>>]

\* main of setup.ts up to checkExistingConfig: with --auto-setup it looks
\* for tokens in the file, prints and returns.
SetupStart ==
  /\ proc = "setup"
  /\ setup.pc = "start"
  /\ IF Includes(host.argv, "--auto-setup")
     THEN /\ setup' = [setup EXCEPT !.pc = "done"]
          /\ fileReads' = fileReads + ReadsOf(host.file)
          /\ proc' = "returned"
     ELSE /\ setup' = [setup EXCEPT !.pc = "check"]
          /\ UNCHANGED << fileReads, proc >>
  /\ UNCHANGED << analyzerVars, host, globalConfig, call, prev, requestCount, inv, heap >>

\* A checkExistingConfig that asks for the new configuration whatever the
\* answer.
checkExistingConfig_AlwaysConfigure ==
  /\ proc = "setup"
  /\ setup.pc = "check"
  /\ IF HasTokens(loadExistingConfig(host.file))
     THEN \E a \in YesNoAnswers :
            setup' = [setup EXCEPT !.asked = Append(@, Asked("reconfigure", "", a)), !.pc = "region"]
     ELSE setup' = [setup EXCEPT !.pc = "region"]
  /\ fileReads' = fileReads + ReadsOf(host.file)
  /\ UNCHANGED << analyzerVars, host, proc, globalConfig, call, prev, requestCount, inv, heap >>

\* checkExistingConfig: when the file holds a token the user is asked whether
\* to reconfigure, and only the answer y or Y goes on to the prompts.
checkExistingConfig ==
  /\ proc = "setup"
  /\ setup.pc = "check"
  /\ IF HasTokens(loadExistingConfig(host.file))
     THEN \E a \in YesNoAnswers :
            setup' = [setup EXCEPT !.asked = Append(@, Asked("reconfigure", "", a)),
                                   !.pc = IF ToLowerCase(a) = << "y" >> THEN "region" ELSE "keep"]
     ELSE setup' = [setup EXCEPT !.pc = "region"]
  /\ fileReads' = fileReads + ReadsOf(host.file)
  /\ UNCHANGED << analyzerVars, host, proc, globalConfig, call, prev, requestCount, inv, heap >>

\* The existing configuration is kept: it is read again and the usage is
\* printed.
KeepExisting ==
  /\ proc = "setup"
  /\ setup.pc = "keep"
  /\ setup' = [setup EXCEPT !.pc = "done"]
  /\ fileReads' = fileReads + ReadsOf(host.file)
  /\ proc' = "returned"
  /\ UNCHANGED << analyzerVars, host, globalConfig, call, prev, requestCount, inv, heap >>

\* promptForTokens, the region: const config = {}; config.region = ...
AskRegion ==
  /\ proc = "setup"
  /\ setup.pc = "region"
  /\ \E a \in RegionAnswers :
       setup' = [setup EXCEPT !.asked = Append(@, Asked("region", "", a)),
                              !.config = Config(None, None, Some(RegionMap(a))),
                              !.kind = "master",
                              !.pc = "token"]
  /\ UNCHANGED << analyzerVars, host, proc, globalConfig, fileReads, call, prev, requestCount, inv, heap >>

\* promptForTokens, the master or the user token is asked for: a blank
\* answer skips it.
AskToken ==
  /\ proc = "setup"
  /\ setup.pc = "token"
  /\ \E a \in TokenAnswers :
       LET st == [setup EXCEPT !.asked = Append(@, Asked("token", setup.kind, a))]
       IN setup' = IF Trim(a) # <<>>
                   THEN [st EXCEPT !.pending = Trim(a), !.pc = "validate"]
                   ELSE AfterToken(st)
  /\ UNCHANGED << analyzerVars, host, proc, globalConfig, fileReads, call, prev, requestCount, inv, heap >>

\* validateToken: one request to /core/v1/workspaces of the chosen region;
\* ok is response.ok, FALSE also when the fetch rejects.  A valid token is
\* put into the configuration.
ValidateToken ==
  /\ proc = "setup"
  /\ setup.pc = "validate"
  /\ \E ok \in BOOLEAN :
       LET st == [setup EXCEPT !.validated =
                    Append(@, [token |-> setup.pending, kind |-> setup.kind,
                               base |-> baseUrls(Get(setup.config.region)), ok |-> ok])]
       IN setup' = IF ok
                   THEN AfterToken([st EXCEPT !.config = SetToken(@, setup.kind, setup.pending)])
                   ELSE [st EXCEPT !.pc = "confirm"]
  /\ requestCount' = requestCount + 1
  /\ UNCHANGED << analyzerVars, host, proc, globalConfig, fileReads, call, prev, inv, heap >>

\* A setup that keeps a token that failed validation whatever the answer.
ConfirmToken_Always ==
  /\ proc = "setup"
  /\ setup.pc = "confirm"
  /\ \E a \in YesNoAnswers :
       LET st == [setup EXCEPT !.asked = Append(@, Asked("saveAnyway", setup.kind, a))]
       IN setup' = AfterToken([st EXCEPT !.config = SetToken(@, setup.kind, setup.pending)])
  /\ UNCHANGED << analyzerVars, host, proc, globalConfig, fileReads, call, prev, requestCount, inv, heap >>

\* "Save anyway? (y/N)": the token that failed validation is put into the
\* configuration when the answer is y or Y.
ConfirmToken ==
  /\ proc = "setup"
  /\ setup.pc = "confirm"
  /\ \E a \in YesNoAnswers :
       LET st == [setup EXCEPT !.asked = Append(@, Asked("saveAnyway", setup.kind, a))]
       IN setup' = IF ToLowerCase(a) = << "y" >>
                   THEN AfterToken([st EXCEPT !.config = SetToken(@, setup.kind, setup.pending)])
                   ELSE AfterToken(st)
  /\ UNCHANGED << analyzerVars, host, proc, globalConfig, fileReads, call, prev, requestCount, inv, heap >>

\* promptForTokens, the default workspace id.
AskWorkspace ==
  /\ proc = "setup"
  /\ setup.pc = "workspace"
  /\ \E a \in WorkspaceAnswers :
       setup' = [setup EXCEPT !.asked = Append(@, Asked("workspace", "", a)),
                              !.config = IF Trim(a) # <<>> THEN WithWorkspace(@, Some(Trim(a))) ELSE @,
                              !.pc = "save"]
  /\ UNCHANGED << analyzerVars, host, proc, globalConfig, fileReads, call, prev, requestCount, inv, heap >>

\* A save that writes the new configuration over the stored one field by
\* field.
SaveOrCancel_Merge ==
  /\ proc = "setup"
  /\ setup.pc = "save"
  /\ IF HasTokens(setup.config)
     THEN LET old == loadExistingConfig(host.file)
              Over(new, was) == IF IsSome(new) THEN new ELSE was
          IN /\ host' = [host EXCEPT !.file =
                           File(WithWorkspace(Config(Over(setup.config.masterToken, old.masterToken),
                                                     Over(setup.config.userToken, old.userToken),
                                                     setup.config.region),
                                              Over(setup.config.workspaceId, old.workspaceId)))]
             /\ setup' = [setup EXCEPT !.writes = @ + 1, !.pc = "done"]
     ELSE /\ setup' = [setup EXCEPT !.pc = "done"]
          /\ UNCHANGED host
  /\ proc' = "returned"
  /\ UNCHANGED << analyzerVars, globalConfig, fileReads, call, prev, requestCount, inv, heap >>

\* if (config.masterToken || config.userToken) { await saveConfig(config) }
\* else "Setup cancelled": saveConfig writes JSON.stringify(config) over the
\* file.
SaveOrCancel ==
  /\ proc = "setup"
  /\ setup.pc = "save"
  /\ IF HasTokens(setup.config)
     THEN /\ host' = [host EXCEPT !.file = File(setup.config)]
          /\ setup' = [setup EXCEPT !.writes = @ + 1, !.pc = "done"]
     ELSE /\ setup' = [setup EXCEPT !.pc = "done"]
          /\ UNCHANGED host
  /\ proc' = "returned"
  /\ UNCHANGED << analyzerVars, globalConfig, fileReads, call, prev, requestCount, inv, heap >>

\* ------------------------------------ invocations in progress together
\* The two invocations of the analysis that may be in progress at once.
Slots == { 1, 2 }

\* The four Maps of an invocation, as created.
EmptyMaps ==
  [dependencyMap |-> <<>>, connectorUsage |-> <<>>, authenticationUsage |-> <<>>,
   nestedWorkflows |-> <<>>]

NoInvocation == [pc |-> "none"]

\* The locals of an invocation after the header and the Summary.
Locals(export, token, region, date) ==
  [pc |-> IF Len(OrEmpty(export.workflows)) = 0 THEN "render" ELSE "index",
   export |-> export, token |-> token, region |-> region, date |-> date,
   wi |-> 1, si |-> 1, deps |-> <<>>, text |-> HeaderLines(export, date)]

\* One step of the handler on its locals l and its Maps m, as the actions
\* BeginWorkflow .. RenderRecommendations take it.
LocalStep(l, m) ==
  LET ws == OrEmpty(l.export.workflows)
      auths == OrEmpty(l.export.authentications)
  IN CASE l.pc = "index" ->
            [l |-> [l EXCEPT !.deps = <<>>, !.si = 1, !.pc = "steps"], m |-> m]
       [] l.pc = "steps" /\ l.si <= Len(OrEmpty(ws[l.wi].steps)) ->
            LET step == Get(ws[l.wi].steps)[l.si]
            IN [l |-> [l EXCEPT !.deps = DepsAfterStep(l.deps, step), !.si = l.si + 1],
                m |-> [m EXCEPT
                         !.connectorUsage = ConnectorUsageAfterStep(@, step, ws[l.wi].name),
                         !.authenticationUsage = AuthenticationUsageAfterStep(@, step, ws[l.wi].name)]]
       [] l.pc = "steps" /\ l.si > Len(OrEmpty(ws[l.wi].steps)) ->
            LET d == DepsAfterNested(l.deps, ws[l.wi])
            IN [l |-> [l EXCEPT !.deps = d,
                                !.pc = IF l.wi = Len(ws) THEN "render" ELSE "index",
                                !.wi = IF l.wi = Len(ws) THEN 1 ELSE l.wi + 1],
                m |-> [m EXCEPT
                         !.nestedWorkflows = NestedAfterWorkflow(@, ws[l.wi]),
                         !.dependencyMap = MapSet(@, ws[l.wi].id, d)]]
       [] l.pc = "render" /\ l.wi <= Len(ws) ->
            [l |-> [l EXCEPT !.text = @ \o DetailLines(ws[l.wi], m.dependencyMap, m.nestedWorkflows, auths),
                             !.wi = l.wi + 1],
             m |-> m]
       [] l.pc = "render" /\ l.wi > Len(ws) ->
            [l |-> [l EXCEPT !.text = @ \o << Line("xref", "heading", <<>>, <<>>, 0) >>
                                        \o ConnectorUsageLines(m.connectorUsage)
                                        \o AuthenticationUsageLines(m.authenticationUsage, auths),
                             !.pc = "rec"],
             m |-> m]
       [] l.pc = "rec" ->
            [l |-> [l EXCEPT !.text = @ \o RecommendationLines(m.nestedWorkflows, m.connectorUsage,
                                                               m.authenticationUsage, auths),
                             !.pc = "done"],
             m |-> m]

\* The exports and the token and region arguments of these invocations:
\* two workflows that share their id and differ in everything else.
ConcWorkflows ==
  { [id |-> Some(S_w1), name |-> Some(S_A), description |-> None, enabled |-> Some(TRUE),
     steps |-> Some(<< Step(Some(ConnSlack), None, AuthRef(S_a1)) >>),
     nestedWorkflows |-> Some(<< Nested(S_B) >>)],
    [id |-> Some(S_w1), name |-> Some(S_B), description |-> None, enabled |-> Some(TRUE),
     steps |-> Some(<< Step(Some(ConnHub), Some(TrigWeb), None) >>),
     nestedWorkflows |-> None] }
ConcExports ==
  { [project |-> None, workflows |-> Some(<< w >>), authentications |-> None,
     connectors |-> None, services |-> None] : w \in ConcWorkflows }
ConcArguments == { [token |-> "t1", region |-> None], [token |-> "t2", region |-> Some("eu")] }

\* Maps kept at module level: every invocation uses the same four.
Scope_Shared(i) == 1

\* The Maps are created by the invocation (const ... = new Map() in the
\* handler): the Maps of invocation i are its own.
Scope(i) == i

\* An entry that fetches before it analyses.
ConcInvoke_Fetching(i) ==
  /\ proc = "serving"
  /\ inv[i] = NoInvocation
  /\ \E e \in ConcExports, a \in ConcArguments :
       inv' = [inv EXCEPT ![i] = Locals(e, a.token, a.region, now)]
  /\ heap' = [heap EXCEPT ![Scope(i)] = EmptyMaps]
  /\ now' = now + 1
  /\ requestCount' = requestCount + 1
  /\ UNCHANGED << projectExport, pc, wi, si, deps, dependencyMap, connectorUsage,
                  authenticationUsage, nestedWorkflows, analysisText, returned >>
  /\ UNCHANGED << setup, host, proc, globalConfig, fileReads, call, prev >>

\* analyze-workflow-dependencies is invoked: the header and the Summary are
\* written and the four Maps are created.
ConcInvoke(i) ==
  /\ proc = "serving"
  /\ inv[i] = NoInvocation
  /\ \E e \in ConcExports, a \in ConcArguments :
       inv' = [inv EXCEPT ![i] = Locals(e, a.token, a.region, now)]
  /\ heap' = [heap EXCEPT ![Scope(i)] = EmptyMaps]
  /\ now' = now + 1
  /\ UNCHANGED << projectExport, pc, wi, si, deps, dependencyMap, connectorUsage,
                  authenticationUsage, nestedWorkflows, analysisText, returned >>
  /\ UNCHANGED << setup, host, proc, globalConfig, fileReads, call, prev, requestCount >>

\* An invocation in progress takes its next step.  The handler has no
\* await, so the event loop runs an invocation from entry to return in one
\* piece; the steps of two invocations are let interleave here, which
\* includes that schedule.
ConcStep(i) ==
  /\ inv[i].pc \notin { "none", "done" }
  /\ LET r == LocalStep(inv[i], heap[Scope(i)])
     IN /\ inv' = [inv EXCEPT ![i] = r.l]
        /\ heap' = [heap EXCEPT ![Scope(i)] = r.m]
  /\ UNCHANGED << analyzerVars, setup, host, proc, globalConfig, fileReads, call, prev, requestCount >>

\* The HTTP tool invocations that are in flight next to the analysis.
ConcInvocations ==
  { [tool |-> "export-project-version", args |-> Args(Some("eu"), None, None, NoUpdate)] }
ConcToolInvoke == InvokeTool(ConcInvocations)

\* ---------------------------------------------------------------- actions
\* The server has started and no HTTP tool and no further invocation of the
\* analysis is in progress.
Serving ==
  /\ host = [argv |-> <<>>, file |-> File(Config(Some("m"), None, Some("eu"))), env |-> Config(None, None, None)]
  /\ proc = "serving"
  /\ globalConfig = Config(Some("m"), None, Some("eu"))
  /\ fileReads = 2
  /\ call = NoCall
  /\ prev = NoCall
  /\ requestCount = 0
  /\ inv = [i \in Slots |-> NoInvocation]
  /\ heap = [i \in Slots |-> EmptyMaps]
  /\ setup = NoSetup

Init ==
  /\ projectExport \in ProjectExports
  /\ pc = "idle"
  /\ wi = 1
  /\ si = 1
  /\ deps = <<>>
  /\ dependencyMap = <<>>
  /\ connectorUsage = <<>>
  /\ authenticationUsage = <<>>
  /\ nestedWorkflows = <<>>
  /\ analysisText = <<>>
  /\ now = 1
  /\ returned = <<>>
  /\ Serving

\* An entry that appends to the report of the previous invocation.
Invoke_KeepText ==
  /\ pc = "idle"
  /\ Len(returned) < MaxInvocations
  /\ analysisText' = analysisText \o HeaderLines(projectExport, now)
  /\ dependencyMap' = <<>>
  /\ connectorUsage' = <<>>
  /\ authenticationUsage' = <<>>
  /\ nestedWorkflows' = <<>>
  /\ deps' = <<>>
  /\ wi' = 1
  /\ si' = 1
  /\ pc' = IF Len(workflows) = 0 THEN "render" ELSE "index"
  /\ UNCHANGED << projectExport, now, returned >>
  /\ UNCHANGED serverVars

\* The handler is entered: the defaults are taken, the header and the
\* Summary are written and the four Maps are created.
Invoke ==
  /\ pc = "idle"
  /\ Len(returned) < MaxInvocations
  /\ analysisText' = HeaderLines(projectExport, now)
  /\ dependencyMap' = <<>>
  /\ connectorUsage' = <<>>
  /\ authenticationUsage' = <<>>
  /\ nestedWorkflows' = <<>>
  /\ deps' = <<>>
  /\ wi' = 1
  /\ si' = 1
  /\ pc' = IF Len(workflows) = 0 THEN "render" ELSE "index"
  /\ UNCHANGED << projectExport, now, returned >>
  /\ UNCHANGED serverVars

\* An iteration of the first workflows.forEach starts.
BeginWorkflow ==
  /\ pc = "index"
  /\ deps' = <<>>
  /\ si' = 1
  /\ pc' = "steps"
  /\ UNCHANGED << projectExport, wi, dependencyMap, connectorUsage, authenticationUsage,
                  nestedWorkflows, analysisText, now, returned >>
  /\ UNCHANGED serverVars

\* One iteration of workflow.steps.forEach.
IndexStep ==
  /\ pc = "steps"
  /\ si <= Len(OrEmpty(workflows[wi].steps))
  /\ LET workflow == workflows[wi]
         step == Get(workflow.steps)[si]
     IN /\ deps' = DepsAfterStep(deps, step)
        /\ connectorUsage' = ConnectorUsageAfterStep(connectorUsage, step, workflow.name)
        /\ authenticationUsage' = AuthenticationUsageAfterStep(authenticationUsage, step, workflow.name)
  /\ si' = si + 1
  /\ UNCHANGED << projectExport, pc, wi, dependencyMap, nestedWorkflows, analysisText, now, returned >>
  /\ UNCHANGED serverVars

\* An index pass that expands nested references: after a workflow that
\* nests a workflow of the export, that workflow is indexed next.
EndWorkflow_ExpandNested ==
  /\ pc = "steps"
  /\ si > Len(OrEmpty(workflows[wi].steps))
  /\ LET workflow == workflows[wi]
         d == DepsAfterNested(deps, workflow)
         IndexOfName(name) ==
           CHOOSE i \in 1..Len(workflows) :
             workflows[i].name = name /\ \A j \in 1..(i - 1) : workflows[j].name # name
         targets == IF HasNested(workflow)
                    THEN { n \in Range(NestedNames(workflow)) :
                             \E i \in 1..Len(workflows) : workflows[i].name = n }
                    ELSE {}
     IN /\ nestedWorkflows' = NestedAfterWorkflow(nestedWorkflows, workflow)
        /\ deps' = d
        /\ dependencyMap' = MapSet(dependencyMap, workflow.id, d)
        /\ IF targets # {}
           THEN pc' = "index" /\ wi' = IndexOfName(CHOOSE n \in targets : TRUE)
           ELSE IF wi = Len(workflows)
                THEN pc' = "render" /\ wi' = 1
                ELSE pc' = "index" /\ wi' = wi + 1
  /\ UNCHANGED << projectExport, si, connectorUsage, authenticationUsage, analysisText, now, returned >>
  /\ UNCHANGED serverVars

\* The steps are done: the nested workflows are recorded and the deps of
\* the workflow are stored under its id.
EndWorkflow ==
  /\ pc = "steps"
  /\ si > Len(OrEmpty(workflows[wi].steps))
  /\ LET workflow == workflows[wi]
         d == DepsAfterNested(deps, workflow)
     IN /\ nestedWorkflows' = NestedAfterWorkflow(nestedWorkflows, workflow)
        /\ deps' = d
        /\ dependencyMap' = MapSet(dependencyMap, workflow.id, d)
  /\ IF wi = Len(workflows)
     THEN pc' = "render" /\ wi' = 1
     ELSE pc' = "index" /\ wi' = wi + 1
  /\ UNCHANGED << projectExport, si, connectorUsage, authenticationUsage, analysisText, now, returned >>
  /\ UNCHANGED serverVars

\* One iteration of the second workflows.forEach.
RenderWorkflow ==
  /\ pc = "render"
  /\ wi <= Len(workflows)
  /\ analysisText' = analysisText
       \o DetailLines(workflows[wi], dependencyMap, nestedWorkflows, authentications)
  /\ wi' = wi + 1
  /\ UNCHANGED << projectExport, pc, si, deps, dependencyMap, connectorUsage,
                  authenticationUsage, nestedWorkflows, now, returned >>
  /\ UNCHANGED serverVars

\* The Cross-Reference Analysis section.
RenderCrossReference ==
  /\ pc = "render"
  /\ wi > Len(workflows)
  /\ analysisText' = analysisText
       \o << Line("xref", "heading", <<>>, <<>>, 0) >>
       \o ConnectorUsageLines(connectorUsage)
       \o AuthenticationUsageLines(authenticationUsage, authentications)
  /\ pc' = "rec"
  /\ UNCHANGED << projectExport, wi, si, deps, dependencyMap, connectorUsage,
                  authenticationUsage, nestedWorkflows, now, returned >>
  /\ UNCHANGED serverVars

\* The Migration Recommendations section, and the return of the report.
\* The clock has advanced by the time of the next invocation.
RenderRecommendations ==
  /\ pc = "rec"
  /\ LET text == analysisText
           \o RecommendationLines(nestedWorkflows, connectorUsage, authenticationUsage, authentications)
     IN /\ analysisText' = text
        /\ returned' = Append(returned, text)
  /\ now' = now + 1
  /\ pc' = "idle"
  /\ UNCHANGED << projectExport, wi, si, deps, dependencyMap, connectorUsage,
                  authenticationUsage, nestedWorkflows >>
  /\ UNCHANGED serverVars

Next ==
  \/ Invoke
  \/ BeginWorkflow
  \/ IndexStep
  \/ EndWorkflow
  \/ RenderWorkflow
  \/ RenderCrossReference
  \/ RenderRecommendations

Spec == Init /\ [][Next]_vars

\* The handler body has no await: once entered it runs to its return
\* without yielding, so a step of an invocation in progress is always
\* taken.  Whether a further invocation is made is up to the client.
HandlerStep ==
  \/ BeginWorkflow
  \/ IndexStep
  \/ EndWorkflow
  \/ RenderWorkflow
  \/ RenderCrossReference
  \/ RenderRecommendations

FairSpec == Spec /\ WF_vars(HandlerStep)

\* No invocation of the analysis by the sequential handler is in progress.
AnalyzerIdle ==
  /\ projectExport = [project |-> None, workflows |-> None, authentications |-> None,
                      connectors |-> None, services |-> None]
  /\ pc = "idle"
  /\ wi = 1
  /\ si = 1
  /\ deps = <<>>
  /\ dependencyMap = <<>>
  /\ connectorUsage = <<>>
  /\ authenticationUsage = <<>>
  /\ nestedWorkflows = <<>>
  /\ analysisText = <<>>
  /\ now = 1
  /\ returned = <<>>

\* The serving process with two invocations of the analysis and an HTTP
\* tool invocation in progress at the same time.
ConcInit == AnalyzerIdle /\ Serving

ConcNext ==
  \/ \E i \in Slots : ConcInvoke(i)
  \/ \E i \in Slots : ConcStep(i)
  \/ ConcToolInvoke
  \/ ToolRespond

ConcSpec == ConcInit /\ [][ConcNext]_vars

\* The start of the process, from main() to the serving state or the exit.
StartInit ==
  /\ AnalyzerIdle
  /\ host \in Hosts
  /\ proc = "args"
  /\ globalConfig = NoConfig
  /\ fileReads = 0
  /\ call = NoCall
  /\ prev = NoCall
  /\ requestCount = 0
  /\ inv = [i \in Slots |-> NoInvocation]
  /\ heap = [i \in Slots |-> EmptyMaps]
  /\ setup = NoSetup

StartNext ==
  \/ HandleArgs
  \/ RunSetup
  \/ LoadConfiguration
  \/ CheckTokens

StartSpec == StartInit /\ [][StartNext]_vars

\* The HTTP tools of the serving process, one invocation after the other,
\* under each configuration the process may have loaded.
ToolInit ==
  /\ AnalyzerIdle
  /\ \E c \in { c \in Configs : IsSome(c.masterToken) \/ IsSome(c.userToken) } :
       /\ host = [argv |-> <<>>, file |-> File(c), env |-> Config(None, None, None)]
       /\ globalConfig = c
  /\ proc = "serving"
  /\ fileReads = 2
  /\ call = NoCall
  /\ prev = NoCall
  /\ requestCount = 0
  /\ inv = [i \in Slots |-> NoInvocation]
  /\ heap = [i \in Slots |-> EmptyMaps]
  /\ setup = NoSetup

ToolNext ==
  \/ ToolInvoke
  \/ ToolRespond

ToolSpec == ToolInit /\ [][ToolNext]_vars

\* The setup, from the entry of main of setup.ts to its return.
SetupInit ==
  /\ AnalyzerIdle
  /\ host \in SetupHosts
  /\ proc = "setup"
  /\ globalConfig = NoConfig
  /\ fileReads = 0
  /\ call = NoCall
  /\ prev = NoCall
  /\ requestCount = 0
  /\ inv = [i \in Slots |-> NoInvocation]
  /\ heap = [i \in Slots |-> EmptyMaps]
  /\ setup = SetupAt(host.file)

SetupNext ==
  \/ SetupStart
  \/ checkExistingConfig
  \/ KeepExisting
  \/ AskRegion
  \/ AskToken
  \/ ValidateToken
  \/ ConfirmToken
  \/ AskWorkspace
  \/ SaveOrCancel

SetupSpec == SetupInit /\ [][SetupNext]_vars

\* ============================================================= properties
\* An invocation has returned and none is in progress: the Maps and the
\* report are those of the last invocation.
Returned == pc = "idle" /\ Len(returned) > 0

\* The number of workflows the index pass of the current invocation has
\* finished with.
IndexedCount ==
  IF pc \in {"index", "steps"} THEN wi - 1
  ELSE IF pc = "idle" /\ Len(returned) = 0 THEN 0
  ELSE Len(workflows)

\* Workflow i is the last indexed workflow that carries its id.
LastWithId(i) == \A j \in (i + 1)..IndexedCount : workflows[j].id # workflows[i].id

StepsOf(w) == OrEmpty(w.steps)

\* The lines of a section of a report, and the lines of a template in it.
SectionOf(text, sec) == LET In(l) == l.sec = sec IN SelectSeq(text, In)
LinesOf(text, k) == LET Is(l) == l.k = k IN SelectSeq(text, Is)

\* The keys the specification gives: "connector:<name>:<version>",
\* "<name>:<version>", "trigger:<name>:<version>", "auth:<id>",
\* "workflow:<name>".
NameVersion(c) == c.name \o <<":">> \o c.version
ConnectorDep(c) == <<"c","o","n","n","e","c","t","o","r",":">> \o NameVersion(c)
TriggerDep(t) == <<"t","r","i","g","g","e","r",":">> \o NameVersion(t)
AuthDep(id) == <<"a","u","t","h",":">> \o id
WorkflowDep(name) == <<"w","o","r","k","f","l","o","w",":">> \o name

C2_NestedWarningCountsWorkflows ==
  Returned =>
    LET warnings == LinesOf(SectionOf(returned[Len(returned)], "rec"), "nestedWarning")
        nesting == { i \in 1..Len(workflows) : HasNested(workflows[i]) }
    IN nesting # {} => Len(warnings) = 1 /\ warnings[1].n = Cardinality(nesting)

\* The report of the last completed invocation.
LastReport == returned[Len(returned)]

\* The per-workflow detail of the i-th workflow in a report: the lines from
\* the i-th workflow heading up to the next one.
DetailBlock(text, i) ==
  LET d == SectionOf(text, "detail")
      starts == { p \in 1..Len(d) : d[p].k = "workflow" }
      Nth(n) == CHOOSE p \in starts : Cardinality({ q \in starts : q <= p }) = n
  IN SubSeq(d, Nth(i), IF i = Cardinality(starts) THEN Len(d) ELSE Nth(i + 1) - 1)

\* The authentication ids (present or absent) the steps of the export use.
UsedAuthIds ==
  UNION { { Get(StepsOf(workflows[i])[j].authentication).id :
              j \in { j \in 1..Len(StepsOf(workflows[i])) :
                        IsSome(StepsOf(workflows[i])[j].authentication) } } :
          i \in 1..Len(workflows) }

\* No entry of export.authentications carries the id.
Unlisted(aid) == \A n \in 1..Len(authentications) : authentications[n].id # aid

\* C3: when a step references an authentication id that export.authentications
\* does not list, the invocation returns a report in which the per-workflow
\* detail (of the workflow whose deps are stored under its id), the
\* Authentication Usage section and the authentication checklist show the
\* raw id in place of a name; and no authentication line of the detail
\* shows anything but the id for an unlisted id.
C3_UnlistedAuthenticationShowsId ==
  Returned =>
    /\ \A i \in 1..Len(workflows) :
         \A j \in 1..Len(StepsOf(workflows[i])) :
           LET step == StepsOf(workflows[i])[j]
               aid == Get(step.authentication).id
           IN (IsSome(step.authentication) /\ IsSome(aid) /\ Unlisted(aid)) =>
                /\ \E l \in Range(LinesOf(SectionOf(LastReport, "xref"), "authentication")) :
                     l.a = Get(aid)
                /\ \E l \in Range(LinesOf(SectionOf(LastReport, "rec"), "recreateAuthentication")) :
                     l.a = Get(aid)
                /\ LastWithId(i) =>
                     \E l \in Range(LinesOf(DetailBlock(LastReport, i), "authentication")) :
                       l.a = Get(aid) /\ l.b = Get(aid)
    /\ \A l \in Range(LinesOf(SectionOf(LastReport, "detail"), "authentication")) :
         Unlisted(Some(l.b)) => l.a = l.b

\* A report was returned for an export that lists authentications, a step
\* of which references the unlisted id a9.
C3_Witness ==
  /\ Returned
  /\ Len(authentications) > 0
  /\ Some(S_a9) \in UsedAuthIds
  /\ Unlisted(Some(S_a9))
  /\ \E l \in Range(LinesOf(SectionOf(LastReport, "detail"), "authentication")) : l.b = S_a9

\* C4: for an export whose workflows collection is empty or absent, the
\* report has no per-workflow detail, the four Maps are empty, the
\* Cross-Reference Analysis has no entry and no recommendation line is
\* written, whatever the other collections hold.
C4_NoWorkflowsNothingReported ==
  (Returned /\ Len(workflows) = 0) =>
    /\ dependencyMap = <<>>
    /\ connectorUsage = <<>>
    /\ authenticationUsage = <<>>
    /\ nestedWorkflows = <<>>
    /\ Len(SectionOf(LastReport, "detail")) = 1 /\ SectionOf(LastReport, "detail")[1].k = "heading"
    /\ Len(SectionOf(LastReport, "xref")) = 1 /\ SectionOf(LastReport, "xref")[1].k = "heading"
    /\ Len(SectionOf(LastReport, "rec")) = 1 /\ SectionOf(LastReport, "rec")[1].k = "heading"

\* A report was returned for an export without workflows that lists
\* authentications, connectors and services.
C4_Witness ==
  /\ Returned
  /\ Len(workflows) = 0
  /\ Len(authentications) > 0 /\ Len(connectors) > 0 /\ Len(services) > 0

\* A report without its Analysis Date line.
WithoutDate(text) == LET NotDate(l) == l.k # "date" IN SelectSeq(text, NotDate)

\* C5: the reports of two invocations on the same export agree on every
\* line but the Analysis Date: same summary counts, same per-workflow
\* detail, same usage entries and members, same recommendations.
C5_SameReportTwice ==
  \A m, n \in 1..Len(returned) : WithoutDate(returned[m]) = WithoutDate(returned[n])

\* Two invocations have returned, at different dates, for an export with
\* two workflows and at least two connectors in use.
C5_Witness ==
  /\ Returned
  /\ Len(returned) = 2
  /\ returned[1] # returned[2]
  /\ Len(workflows) = 2
  /\ Len(connectorUsage) = 2

\* C6: for every workflow having a step with authentication {id}, the
\* workflow's name is a member of authenticationUsage[id] and "auth:<id>" is
\* in the workflow's dependency set (the local deps while the workflow is
\* indexed, and the set stored under the workflow's id unless a later
\* workflow with the same id replaced it); when export.authentications
\* lists the id with a name, the recommendations include the line
\* "Recreate authentication: <name>"; and there is one such line per
\* distinct authentication id.
C6_AuthenticationIndexed ==
  /\ pc = "steps" =>
       \A j \in 1..(si - 1) :
         LET step == StepsOf(workflows[wi])[j]
             aid == Get(step.authentication).id
         IN (IsSome(step.authentication) /\ IsSome(aid)) =>
              /\ AuthDep(Get(aid)) \in Range(deps)
              /\ MapHas(authenticationUsage, aid)
              /\ workflows[wi].name \in Range(MapGet(authenticationUsage, aid))
  /\ Returned =>
       /\ \A i \in 1..Len(workflows) :
            \A j \in 1..Len(StepsOf(workflows[i])) :
              LET step == StepsOf(workflows[i])[j]
                  aid == Get(step.authentication).id
              IN (IsSome(step.authentication) /\ IsSome(aid)) =>
                   /\ MapHas(authenticationUsage, aid)
                   /\ workflows[i].name \in Range(MapGet(authenticationUsage, aid))
                   /\ LastWithId(i) =>
                        /\ MapHas(dependencyMap, workflows[i].id)
                        /\ AuthDep(Get(aid)) \in Range(MapGet(dependencyMap, workflows[i].id))
                   /\ \A n \in 1..Len(authentications) :
                        LET a == authentications[n]
                        IN (a.id = aid /\ IsSome(a.name) /\ Get(a.name) # <<>>) =>
                             \E l \in Range(LinesOf(SectionOf(LastReport, "rec"), "recreateAuthentication")) :
                               l.a = Get(a.name)
       /\ Len(LinesOf(SectionOf(LastReport, "rec"), "recreateAuthentication"))
            = Cardinality(UsedAuthIds)

\* A report was returned whose checklist has the line of the named
\* authentication a1 and a second line.
C6_Witness ==
  /\ Returned
  /\ Some(S_a1) \in UsedAuthIds
  /\ \E l \in Range(LinesOf(SectionOf(LastReport, "rec"), "recreateAuthentication")) : l.a = <<"N">>
  /\ Len(LinesOf(SectionOf(LastReport, "rec"), "recreateAuthentication")) = 2

\* The nestedWorkflows list of a workflow, absent taken as empty, and the
\* names in it, in order.
NestedListOf(w) == OrEmpty(w.nestedWorkflows)
NestedNamesOf(w) == [n \in 1..Len(NestedListOf(w)) |-> NestedListOf(w)[n].workflowName]

\* The iteration of the first forEach for workflow IndexedCount has just
\* ended: deps is that workflow's complete dependency set.
JustIndexed == (pc = "index" /\ wi > 1) \/ (pc = "render" /\ wi = 1 /\ Len(workflows) > 0)

UsedConnectorKeys ==
  UNION { { NameVersion(Get(StepsOf(workflows[i])[j].connector)) :
              j \in { j \in 1..Len(StepsOf(workflows[i])) :
                        IsSome(StepsOf(workflows[i])[j].connector) } } :
          i \in 1..Len(workflows) }

\* No key of connectorUsage and no connector line of the Cross-Reference
\* Analysis or of the checklist comes from a trigger.
NoTriggerCrossReferenced ==
  /\ Keys(connectorUsage) \subseteq UsedConnectorKeys
  /\ \A n \in 1..Len(analysisText) :
       analysisText[n].k \in {"connector", "verifyConnector"}
         => analysisText[n].a \in UsedConnectorKeys

\* The step of workflow.steps.forEach at the current position is handled.
StepHandled == pc = "steps" /\ si' = si + 1

\* C8: handling a step with a trigger puts "trigger:<name>:<version>" into
\* the workflow's dependency set; a step with nothing but a trigger adds
\* that key and changes nothing else (connectorUsage, authenticationUsage,
\* the nested index, dependencyMap and the report stay as they are); a
\* trigger never adds a key to connectorUsage or authenticationUsage, and
\* no trigger key shows in a cross-reference or checklist line.
C8_TriggerInDepsOnly ==
  [][ /\ StepHandled =>
           LET step == StepsOf(workflows[wi])[si]
           IN /\ IsSome(step.trigger) => TriggerDep(Get(step.trigger)) \in Range(deps')
              /\ (IsSome(step.trigger) /\ ~IsSome(step.connector) /\ ~IsSome(step.authentication)) =>
                   /\ Range(deps') = Range(deps) \cup { TriggerDep(Get(step.trigger)) }
                   /\ UNCHANGED << connectorUsage, authenticationUsage, nestedWorkflows,
                                   dependencyMap, analysisText >>
              /\ Keys(connectorUsage') \ Keys(connectorUsage)
                   \subseteq (IF IsSome(step.connector)
                              THEN { NameVersion(Get(step.connector)) } ELSE {})
              /\ Keys(authenticationUsage') \ Keys(authenticationUsage)
                   \subseteq (IF IsSome(step.authentication)
                              THEN { Get(step.authentication).id } ELSE {})
      /\ NoTriggerCrossReferenced'
    ]_vars

\* A step with nothing but a trigger has just been handled in the second
\* workflow, the first workflow having filled connectorUsage.
C8_Witness ==
  /\ pc = "steps" /\ wi = 2 /\ si = 2
  /\ StepsOf(workflows[wi])[1] = Step(None, Some(TrigWeb), None)
  /\ deps = << TriggerDep(TrigWeb) >>
  /\ Len(connectorUsage) > 0

\* The workflows of the export that have a step with the connector key, and
\* those that have a step with the authentication id.
ConnectorUsers(key) ==
  { i \in 1..Len(workflows) :
      \E j \in 1..Len(StepsOf(workflows[i])) :
        /\ IsSome(StepsOf(workflows[i])[j].connector)
        /\ NameVersion(Get(StepsOf(workflows[i])[j].connector)) = key }
AuthenticationUsers(aid) ==
  { i \in 1..Len(workflows) :
      \E j \in 1..Len(StepsOf(workflows[i])) :
        /\ IsSome(StepsOf(workflows[i])[j].authentication)
        /\ Get(StepsOf(workflows[i])[j].authentication).id = aid }

\* C9 as stated: the connector entries of the Cross-Reference Analysis, and
\* likewise the authentication entries, are listed in descending order of
\* the number of workflows of the export that use them, two workflows with
\* the same name counting as two.
C9_SortedByDistinctWorkflows ==
  Returned =>
    LET cs == LinesOf(SectionOf(LastReport, "xref"), "connector")
        as == SortBySizeDesc(authenticationUsage)
    IN /\ \A n \in 1..(Len(cs) - 1) :
            Cardinality(ConnectorUsers(cs[n].a)) >= Cardinality(ConnectorUsers(cs[n + 1].a))
       /\ \A n \in 1..(Len(as) - 1) :
            Cardinality(AuthenticationUsers(as[n].key)) >= Cardinality(AuthenticationUsers(as[n + 1].key))

\* The place of a line template in the Migration Recommendations.
RecRank(k) ==
  CASE k = "heading" -> 0
    [] k = "nestedWarning" -> 1
    [] k = "ensureNestedIncluded" -> 2
    [] k = "verifyExecutionOrder" -> 3
    [] k = "connectorChecklist" -> 4
    [] k = "verifyConnector" -> 5
    [] k = "authenticationChecklist" -> 6
    [] k = "recreateAuthentication" -> 7
    [] OTHER -> 8

\* C10: the Migration Recommendations are, in this order: the nested
\* workflow warning followed by its two reminder lines, present iff the
\* nested index is non-empty; the connector checklist, present iff
\* connectorUsage is non-empty, with one line per connector key; the
\* authentication checklist, present iff authenticationUsage is non-empty,
\* with one line per authentication id.
C10_RecommendationsChecklist ==
  Returned =>
    LET r == SectionOf(LastReport, "rec")
        Count(k) == Len(LinesOf(r, k))
        OneIf(b) == IF b THEN 1 ELSE 0
    IN /\ r[1].k = "heading"
       /\ \A n \in 1..(Len(r) - 1) : RecRank(r[n].k) <= RecRank(r[n + 1].k)
       /\ \A n \in 1..Len(r) : RecRank(r[n].k) < 8
       /\ Count("heading") = 1
       /\ Count("nestedWarning") = OneIf(Len(nestedWorkflows) > 0)
       /\ Count("ensureNestedIncluded") = OneIf(Len(nestedWorkflows) > 0)
       /\ Count("verifyExecutionOrder") = OneIf(Len(nestedWorkflows) > 0)
       /\ Count("connectorChecklist") = OneIf(Len(connectorUsage) > 0)
       /\ Count("verifyConnector") = Cardinality(Keys(connectorUsage))
       /\ { l.a : l \in Range(LinesOf(r, "verifyConnector")) } = Keys(connectorUsage)
       /\ Count("authenticationChecklist") = OneIf(Len(authenticationUsage) > 0)
       /\ Count("recreateAuthentication") = Cardinality(Keys(authenticationUsage))

\* A report was returned whose recommendations hold the nested workflow
\* warning, two connector lines and two authentication lines.
C10_Witness ==
  /\ Returned
  /\ Len(nestedWorkflows) > 0
  /\ Len(LinesOf(SectionOf(LastReport, "rec"), "verifyConnector")) = 2
  /\ Len(LinesOf(SectionOf(LastReport, "rec"), "recreateAuthentication")) = 2

\* The dependency keys one step carries.
KeysOfStep(step) ==
  (IF IsSome(step.connector) THEN { ConnectorDep(Get(step.connector)) } ELSE {})
  \cup (IF IsSome(step.trigger) THEN { TriggerDep(Get(step.trigger)) } ELSE {})
  \cup (IF IsSome(step.authentication)
        THEN { <<"a","u","t","h",":">> \o ToStr(Get(step.authentication).id) } ELSE {})

\* The one line of a template in the detail of the i-th workflow.
DetailLine(i, k) == LinesOf(DetailBlock(LastReport, i), k)[1]

\* C11: the analysis does not fail on structurally incomplete input.  The
\* two passes stay within the workflows and steps the export has (an absent
\* list is iterated as an empty one); the report of an
\* export with an absent collection counts it as 0, an absent project (or
\* project name) shows as "Unknown", an absent description as "N/A", an
\* absent steps list as 0 steps; a workflow with neither steps nor nested
\* workflows has an empty dependency set, 0 total dependencies and no
\* connector or authentication line in its detail; and
\* while the steps of a workflow are indexed its dependency set holds the
\* keys of the connectors, triggers and authentications of the steps
\* handled and nothing else, so that a step with none of the three
\* contributes no key.
C11_AbsentFieldsDegrade ==
  /\ pc \in {"index", "steps"} => wi \in 1..Len(workflows)
  /\ pc = "steps" => si \in 1..(Len(StepsOf(workflows[wi])) + 1)
  /\ pc = "render" => wi \in 1..(Len(workflows) + 1)
  /\ pc = "steps" =>
       Range(deps) = UNION { KeysOfStep(StepsOf(workflows[wi])[j]) : j \in 1..(si - 1) }
  /\ Returned =>
       LET h == SectionOf(LastReport, "header")
           s == SectionOf(LastReport, "summary")
       IN /\ ~IsSome(projectExport.project) => LinesOf(h, "project")[1].a = <<"U","n","k","n","o","w","n">>
          /\ ~IsSome(projectExport.workflows) => LinesOf(s, "workflows")[1].n = 0
          /\ ~IsSome(projectExport.connectors) => LinesOf(s, "connectors")[1].n = 0
          /\ ~IsSome(projectExport.services) => LinesOf(s, "services")[1].n = 0
          /\ ~IsSome(projectExport.authentications) => LinesOf(s, "authentications")[1].n = 0
          /\ Len(SectionOf(LastReport, "rec")) > 0
          /\ \A i \in 1..Len(workflows) :
               LET w == workflows[i]
               IN /\ ~IsSome(w.description) => DetailLine(i, "description").a = <<"N","/","A">>
                  /\ ~IsSome(w.steps) => DetailLine(i, "steps").n = 0
                  /\ (~IsSome(w.steps) /\ ~IsSome(w.nestedWorkflows) /\ LastWithId(i)) =>
                       /\ MapGet(dependencyMap, w.id) = <<>>
                       /\ DetailLine(i, "totalDependencies").n = 0
                       /\ LinesOf(DetailBlock(LastReport, i), "connector") = <<>>
                       /\ LinesOf(DetailBlock(LastReport, i), "authentication") = <<>>

\* A report was returned for an export without project, authentications,
\* connectors or services, whose first workflow has no description, no
\* steps list and no nestedWorkflows list and whose second workflow has a
\* step with neither connector, trigger nor authentication.
C11_Witness ==
  /\ Returned
  /\ ~IsSome(projectExport.project) /\ ~IsSome(projectExport.authentications)
  /\ ~IsSome(projectExport.connectors) /\ ~IsSome(projectExport.services)
  /\ Len(workflows) = 2
  /\ ~IsSome(workflows[1].description) /\ ~IsSome(workflows[1].steps)
  /\ ~IsSome(workflows[1].nestedWorkflows)
  /\ Step(None, None, None) \in Range(StepsOf(workflows[2]))

\* The steps the index pass takes for the workflows from position i on:
\* one to begin a workflow, one per step, one to end it.
RECURSIVE IndexWork(_)
IndexWork(i) ==
  IF i > Len(workflows) THEN 0 ELSE 2 + Len(StepsOf(workflows[i])) + IndexWork(i + 1)

\* The steps the report takes from workflow i on: one per workflow, the
\* cross-reference and the recommendations.
RenderWork(i) == (Len(workflows) - i + 1) + 2

\* The number of steps an invocation takes: a function of the number of
\* workflows and of steps, whatever the nestedWorkflows lists hold.
InputSize == IndexWork(1) + RenderWork(1)

\* The steps the invocation in progress has left.
Remaining ==
  CASE pc = "idle" -> 0
    [] pc = "index" -> IndexWork(wi) + RenderWork(1)
    [] pc = "steps" -> (Len(StepsOf(workflows[wi])) - si + 1) + 1 + IndexWork(wi + 1) + RenderWork(1)
    [] pc = "render" -> RenderWork(wi)
    [] pc = "rec" -> 1

\* An invocation is in progress.
InProgress == pc # "idle"

\* Some workflow of the export nests itself, and two workflows nest each
\* other.
SelfNesting ==
  \E i \in 1..Len(workflows) : workflows[i].name \in Range(NestedNamesOf(workflows[i]))
MutualNesting ==
  \E i, j \in 1..Len(workflows) :
    /\ workflows[i].name # workflows[j].name
    /\ workflows[j].name \in Range(NestedNamesOf(workflows[i]))
    /\ workflows[i].name \in Range(NestedNamesOf(workflows[j]))

\* C12: the analysis terminates on every export, cyclic nested references
\* included.  An invocation starts with at most InputSize steps to take, a
\* number fixed by the workflows and steps of the export alone; every step
\* of the invocation lowers the number of steps left by one (a nested
\* reference is never followed); and every invocation in progress returns.
C12_Terminates ==
  /\ [][ /\ (pc = "idle" /\ pc' # "idle") => Remaining' <= InputSize
         /\ InProgress => Remaining' = Remaining - 1
       ]_vars
  /\ (InProgress ~> Returned)

\* A report was returned for an export in which a workflow nests itself and
\* two workflows nest each other.
C12_Witness ==
  /\ Returned
  /\ SelfNesting
  /\ MutualNesting

\* Invocation i of the analysis has returned.
Done(i) == inv[i].pc = "done"

\* An invocation of the analysis is entered or takes a step.
AnalysisStep == inv' # inv

\* C13 as stated: the result of an invocation depends on its projectExport
\* argument only, so that two invocations with the same projectExport
\* return the same text.
C13_ResultOfExportOnly ==
  \A i, j \in Slots :
    (Done(i) /\ Done(j) /\ inv[i].export = inv[j].export) => inv[i].text = inv[j].text

\* C13 amended: an invocation of analyze-workflow-dependencies makes no HTTP
\* request, whatever its token and region, and no file access: none of its
\* steps changes the number of requests made, the HTTP invocation in
\* flight, the number of file reads or the configuration file; and its
\* result depends on the projectExport argument and on the date of the
\* invocation only: two invocations with the same projectExport return
\* texts that differ in the Analysis Date line at most.
C13_NoInputOutput ==
  /\ [][ AnalysisStep => UNCHANGED << requestCount, call, prev, fileReads, host, globalConfig >> ]_vars
  /\ [](\A i, j \in Slots :
          (Done(i) /\ Done(j) /\ inv[i].export = inv[j].export)
            => WithoutDate(inv[i].text) = WithoutDate(inv[j].text))

\* Two invocations with the same projectExport and different tokens and
\* regions have returned, at different dates, after an HTTP tool made a
\* request.
C13_Witness ==
  /\ Done(1) /\ Done(2)
  /\ inv[1].export = inv[2].export
  /\ inv[1].token # inv[2].token
  /\ inv[1].region # inv[2].region
  /\ inv[1].text # inv[2].text
  /\ requestCount > 0

\* The result of an invocation that runs alone: the handler's steps from
\* the entry to the return, on Maps of its own.
RECURSIVE Run(_, _)
Run(l, m) ==
  IF l.pc = "done" THEN l.text
  ELSE LET r == LocalStep(l, m) IN Run(r.l, r.m)

AloneResult(l) == Run(Locals(l.export, l.token, l.region, l.date), EmptyMaps)

\* C14: under every interleaving of the steps of two invocations of the
\* analysis, and of the request and response of an HTTP tool invocation,
\* each invocation of the analysis returns the text it returns when it runs
\* alone on its projectExport at its date.
C14_SameResultAsAlone ==
  \A i \in Slots : Done(i) => inv[i].text = AloneResult(inv[i])

\* Invocation 1 was entered after invocation 2 and has returned while
\* invocation 2, on another export, is between two steps and an HTTP
\* request is in flight.
C14_Witness ==
  /\ Done(1)
  /\ inv[2].pc = "steps" /\ inv[2].si = 2
  /\ inv[2].date < inv[1].date
  /\ inv[1].export # inv[2].export
  /\ call # NoCall

\* A configuration holds a master or a user token.
HasToken(c) == Truthy(c.masterToken) \/ Truthy(c.userToken)

\* The configuration file can be read and holds a token.
FileHasToken == host.file.exists /\ host.file.valid /\ HasToken(host.file.config)

\* main() has loaded the configuration.
ConfigurationLoaded == proc \in { "check", "serving", "exited" }

\* The token an optional string holds: none when it is absent or empty.
TokenIn(o) == IF Truthy(o) THEN o ELSE None

\* C15 as stated: the configuration is taken from the configuration file
\* first and from the environment variables otherwise, so that the tokens
\* of the loaded configuration are those of the file when the file holds a
\* token and those of TRAY_MASTER_TOKEN / TRAY_USER_TOKEN when it holds
\* none; and the process prints the instructions and exits only when
\* neither the file nor the environment variables hold a token.
C15_ExitsOnlyWithoutAnyToken ==
  /\ ConfigurationLoaded =>
       LET source == IF FileHasToken THEN host.file.config ELSE host.env
       IN /\ TokenIn(globalConfig.masterToken) = TokenIn(source.masterToken)
          /\ TokenIn(globalConfig.userToken) = TokenIn(source.userToken)
  /\ proc = "exited" => ~FileHasToken /\ ~HasToken(host.env)
  /\ proc = "serving" => FileHasToken \/ HasToken(host.env)

\* The last HTTP tool invocation got the JSON value data (not null) from the
\* API.
Answered == prev.tool \in HttpTools /\ IsSome(prev.outcome) /\ Get(prev.outcome).kind = "json"
                /\ IsSome(Get(prev.outcome).data)
AnswerData == Get(Get(prev.outcome).data)

\* The result of the last invocation reports the pagination field k: in a
\* line of its Pagination block, or in the JSON text of the response that
\* the result carries.
Reports(k) ==
  \/ \E n \in 1..Len(prev.result.pagination) : prev.result.pagination[n].k = k
  \/ IsSome(prev.result.dump)

\* C16 as stated: the result of a list tool whose request succeeded reports
\* the next cursor when the response has a cursor, the hasMore flag when
\* the response has hasMore, and the total count when the response has
\* totalCount, each whether or not the other two are there.
C16_PaginationReported ==
  (Answered /\ prev.tool \in ListTools) =>
    /\ Truthy(AnswerData.cursor) => Reports("cursor")
    /\ IsSome(AnswerData.hasMore) => Reports("hasMore")
    /\ IsSome(AnswerData.totalCount) => Reports("totalCount")

\* The host the region argument of an invocation stands for.
HostOfRegion(region) ==
  CASE region = Some("eu") -> "https://api.eu1.tray.io"
    [] region = Some("apac") -> "https://api.ap1.tray.io"
    [] region = Some("us") -> "https://api.tray.io"
    [] region = None -> "https://api.tray.io"

\* C17: the request of every HTTP tool invocation, in flight or answered,
\* goes to https://api.tray.io when the region argument is "us" or absent,
\* to https://api.eu1.tray.io when it is "eu" and to https://api.ap1.tray.io
\* when it is "apac", whatever the region of the loaded configuration and
\* the region of the invocation before.
C17_RegionRouting ==
  /\ call # NoCall => call.request.base = HostOfRegion(call.args.region)
  /\ (prev # NoCall /\ IsSome(prev.request)) =>
       Get(prev.request).base = HostOfRegion(prev.args.region)

\* With "eu" as the configured region, an invocation without region was
\* answered from https://api.tray.io and the request of an invocation with
\* region "apac" is in flight.
C17_Witness ==
  /\ globalConfig.region = Some("eu")
  /\ prev # NoCall /\ IsSome(prev.request)
  /\ prev.args.region = None
  /\ Get(prev.request).base = "https://api.tray.io"
  /\ call # NoCall
  /\ call.args.region = Some("apac")
  /\ call.request.base = "https://api.ap1.tray.io"

\* The request of the last HTTP tool invocation failed: the fetch rejected,
\* the status was not ok, the body was not JSON, or it was the JSON null.
RequestFailed == prev.tool \in HttpTools /\ IsSome(prev.outcome) /\ ~Answered

\* C18: no HTTP tool invocation ends in an exception; and when the request
\* failed (a status that is not ok, a network failure, a body that does not
\* parse), makeTrayRequest returned null and the tool returned a normal
\* result whose text is its "Failed to ..." message and nothing else: no
\* element, no JSON text of a response, no pagination line.
C18_FailuresAreValues ==
  /\ prev.tool \in HttpTools => prev.result.kind # "exception"
  /\ RequestFailed =>
       /\ ~makeTrayRequest(Get(prev.outcome)).thrown
       /\ makeTrayRequest(Get(prev.outcome)).value = None
       /\ prev.result.kind = "failed"
       /\ Len(prev.result.text) >= 2
       /\ prev.result.text[1] = "Failed to"
       /\ prev.result.found = 0
       /\ prev.result.dump = None
       /\ prev.result.pagination = <<>>

\* The request of an export-project-version invocation was answered with a
\* status that is not ok, and the tool returned its failure message.
C18_Witness ==
  /\ prev.tool = "export-project-version"
  /\ prev.outcome = Some(HttpError)
  /\ prev.result.kind = "failed"
  /\ prev.result.text = << "Failed to", " export project ", "x", " version ", "1" >>

\* C19: an HTTP tool invocation makes one request when its handler reaches
\* makeTrayRequest, also when the invocation before it had the same tool
\* and arguments and was answered, and none after that, whether the request
\* succeeds or fails; an invocation that returns without makeTrayRequest
\* makes none.
C19_OneRequestPerInvocation ==
  [][ /\ (call = NoCall /\ call' # NoCall) =>
           /\ requestCount' = requestCount + 1
           /\ call'.request = RequestOf(call'.tool, call'.args)
      /\ (call = NoCall /\ call' = NoCall) => requestCount' = requestCount
      /\ call # NoCall => (requestCount' = requestCount /\ call' = NoCall)
    ]_vars

\* An invocation was answered with data, and the request of a second
\* invocation of the same tool with the same arguments is in flight.
C19_Witness ==
  /\ Answered
  /\ call # NoCall
  /\ call.tool = prev.tool /\ call.args = prev.args
  /\ requestCount = 2

\* The values of the parameter k in a query.
ParamValues(query, k) == LET IsK(x) == x.k = k IN [n \in 1..Len(SelectSeq(query, IsK)) |-> SelectSeq(query, IsK)[n].v]

\* The query of a request is built from the arguments of the invocation.
QueryFromArguments(tool, args, query) ==
  IF tool \in { "list-connectors", "get-connector-operations", "list-triggers", "list-workspaces",
                "get-subscriptions", "list-authentications", "get-trigger-operations",
                "list-projects", "list-project-versions" }
  THEN /\ ParamValues(query, "limit")
            = << IF args.limit # None THEN args.limit[1]
                 ELSE IF tool = "get-subscriptions" THEN 10 ELSE 50 >>
       /\ ParamValues(query, "cursor")
            = (IF args.cursor # None /\ args.cursor # << "" >> THEN << args.cursor[1] >> ELSE <<>>)
  ELSE query = <<>>

\* C20: the request of a list tool carries one limit parameter, which is
\* the limit argument, or 50 when the argument is omitted (10 for
\* get-subscriptions), and a cursor parameter iff a cursor argument was
\* supplied and is not the empty string, which is then that cursor; the
\* other tools send no query.
C20_QueryFromArguments ==
  /\ call # NoCall => QueryFromArguments(call.tool, call.args, call.request.query)
  /\ (prev # NoCall /\ IsSome(prev.request)) =>
       QueryFromArguments(prev.tool, prev.args, Get(prev.request).query)

\* list-connectors was invoked with limit 0 and an empty cursor and sent
\* limit=0 without cursor, and the request of get-subscriptions without
\* limit and cursor is in flight with limit=10.
C20_Witness ==
  /\ prev.tool = "list-connectors"
  /\ prev.args.limit = Some(0) /\ prev.args.cursor = Some("")
  /\ Get(prev.request).query = << [k |-> "limit", v |-> 0] >>
  /\ call.tool = "get-subscriptions"
  /\ call.args.limit = None /\ call.args.cursor = None
  /\ call.request.query = << [k |-> "limit", v |-> 10] >>

\* The dependency keys of a workflow's own steps and nestedWorkflows.
OwnKeys(w) ==
  UNION { KeysOfStep(StepsOf(w)[j]) : j \in 1..Len(StepsOf(w)) }
  \cup { WorkflowDep(ToStr(NestedNamesOf(w)[n])) : n \in 1..Len(NestedNamesOf(w)) }

\* C21 as stated: for every workflow of the export, the Total Dependencies
\* line of its detail reports the number of distinct dependency keys
\* (connector, trigger, auth and workflow kinds together) of the workflow's
\* own steps and nestedWorkflows.
C21_TotalDependenciesOwnKeys ==
  Returned =>
    \A i \in 1..Len(workflows) :
      DetailLine(i, "totalDependencies").n = Cardinality(OwnKeys(workflows[i]))

\* The strings a template's lines of a detail block show, in order.
Shown(block, k) == [n \in 1..Len(LinesOf(block, k)) |-> LinesOf(block, k)[n].a]

\* The connector keys and the authentication ids of a workflow's own steps.
OwnConnectors(w) ==
  { NameVersion(Get(StepsOf(w)[j].connector)) :
      j \in { j \in 1..Len(StepsOf(w)) : IsSome(StepsOf(w)[j].connector) } }
OwnAuthentications(w) ==
  { ToStr(Get(StepsOf(w)[j].authentication).id) :
      j \in { j \in 1..Len(StepsOf(w)) : IsSome(StepsOf(w)[j].authentication) } }

\* C22 as stated: the per-workflow detail of a returned report has one
\* entry per workflow of the export, in the order of the export, and the
\* connectors, the authentications and the nested workflows an entry lists
\* are those of that workflow's own steps and nestedWorkflows, also when
\* two workflows of the export share their id.
C22_DetailOfOwnDependencies ==
  Returned =>
    /\ Len(LinesOf(SectionOf(LastReport, "detail"), "workflow")) = Len(workflows)
    /\ \A i \in 1..Len(workflows) :
         LET w == workflows[i]
             block == DetailBlock(LastReport, i)
         IN /\ block[1].a = ToStr(w.name) /\ block[1].b = ToStr(w.id)
            /\ Range(Shown(block, "connector")) = OwnConnectors(w)
            /\ Len(Shown(block, "connector")) = Cardinality(OwnConnectors(w))
            /\ { l.b : l \in Range(LinesOf(block, "authentication")) } = OwnAuthentications(w)
            /\ Len(LinesOf(block, "authentication")) = Cardinality(OwnAuthentications(w))
            /\ Shown(block, "nested") = [n \in 1..Len(NestedNamesOf(w)) |-> ToStr(NestedNamesOf(w)[n])]

\* The fields of an update the claim has sent: name and endpoint when given
\* and not the empty string, input when given.
SuppliedFields(args) ==
  (IF args.name \notin { None, Some("") } THEN { [k |-> "name", v |-> Get(args.name)] } ELSE {})
  \cup (IF args.endpoint \notin { None, Some("") }
        THEN { [k |-> "endpoint", v |-> Get(args.endpoint)] } ELSE {})
  \cup (IF args.input # None THEN { [k |-> "input", v |-> Get(args.input)] } ELSE {})

\* C23: update-subscription given none of name, endpoint and input, or
\* only empty strings for name and endpoint, returns the "No update
\* parameters provided" message without a request being made; given
\* anything else it makes one request, a PATCH to the subscription whose
\* body holds exactly the name and endpoint given as non-empty strings and
\* the input given, and makes no further request before it returns.
C23_UpdateSubscriptionPayload ==
  [][ /\ (call = NoCall /\ prev' # prev /\ prev'.tool = "update-subscription") =>
           /\ SuppliedFields(prev'.args) = {}
           /\ prev'.result.kind = "noparams"
           /\ prev'.request = None
           /\ requestCount' = requestCount
           /\ call' = NoCall
      /\ (call = NoCall /\ call' # NoCall /\ call'.tool = "update-subscription") =>
           /\ SuppliedFields(call'.args) # {}
           /\ requestCount' = requestCount + 1
           /\ call'.request.method = "PATCH"
           /\ call'.request.path = << "subscriptions", call'.args.a >>
           /\ IsSome(call'.request.body)
           /\ Range(Get(call'.request.body)) = SuppliedFields(call'.args)
           /\ Len(Get(call'.request.body)) = Cardinality(SuppliedFields(call'.args))
      /\ (call # NoCall /\ call.tool = "update-subscription") =>
           /\ requestCount' = requestCount
           /\ call' = NoCall
           /\ prev'.request = Some(call.request)
           /\ prev'.result.kind # "noparams"
    ]_vars

\* update-subscription given only empty strings has returned the message
\* and no request was made for it; the next invocation, given an empty
\* input object only, has its request in flight.
C23_Witness ==
  /\ prev.tool = "update-subscription"
  /\ prev.args.name = Some("") /\ prev.args.endpoint = Some("") /\ prev.args.input = None
  /\ prev.result.kind = "noparams"
  /\ call.tool = "update-subscription"
  /\ call.args.input = Some("{}") /\ call.args.name = None
  /\ requestCount = 1

\* The status of the response was ok: the fetch did not reject and
\* response.ok held, whatever the body.
StatusOk(outcome) == outcome.kind \in { "body", "json" }

\* C24 as stated: delete-subscription and delete-authentication report
\* "... deleted successfully" whenever the DELETE request was answered with
\* an ok status, a response with an empty body included, and report
\* "Failed to delete ..." only when the request failed or the status was
\* not ok.
C24_DeleteSucceedsOnOkStatus ==
  (prev.tool \in DeleteTools /\ IsSome(prev.outcome)) =>
    /\ StatusOk(Get(prev.outcome)) => prev.result.kind = "ok"
    /\ prev.result.kind = "failed" => ~StatusOk(Get(prev.outcome))

\* The command line asks for the setup, or for the usage.
SetupAsked == Includes(host.argv, "--setup")
HelpAsked == Includes(host.argv, "--help") \/ Includes(host.argv, "-h")

\* The server is connected to the stdio transport.
Connected == proc = "serving"

\* C25: the order of the start.  With --setup, --help or -h on the command
\* line the server is never connected: --setup runs the setup, also next to
\* --help, and --help or -h alone prints the usage, and main returns.
\* Otherwise the configuration is loaded first, the server is connected only
\* from the token check, with the loaded configuration holding a master or
\* a user token, and the process exits with status 1, not connected, when
\* it holds neither.
C25_StartupOrdering ==
  [][ /\ Connected' =>
           /\ proc = "check"
           /\ ~SetupAsked /\ ~HelpAsked
           /\ globalConfig' = Loaded(host)
           /\ HasToken(globalConfig')
      /\ (proc = "args" /\ SetupAsked) => (proc' = "returned" /\ fileReads' = fileReads + 1)
      /\ (proc = "args" /\ ~SetupAsked /\ HelpAsked) => (proc' = "returned" /\ host' = host /\ fileReads' = fileReads)
      /\ (proc = "args" /\ ~SetupAsked /\ ~HelpAsked) => proc' = "load"
      /\ proc = "load" => (proc' = "check" /\ globalConfig' = Loaded(host))
      /\ (proc = "check" /\ ~HasToken(globalConfig)) => proc' = "exited"
      /\ proc' = "exited" => (proc = "check" /\ ~HasToken(globalConfig))
      /\ proc \in { "returned", "exited" } => proc' = proc
    ]_vars

\* The server is connected, started with an argument that is none of the
\* three flags, no configuration file and a token in the environment.
C25_Witness ==
  /\ Connected
  /\ host.argv = << "--verbose" >>
  /\ ~host.file.exists
  /\ HasToken(host.env)
  /\ globalConfig = Loaded(host)

\* The setup has returned.
SetupDone == setup.pc = "done"

\* The token of a kind in a configuration.
TokenOf(config, kind) == IF kind = "master" THEN config.masterToken ELSE config.userToken

\* The answers given to a question about a kind of token.
AnswersTo(q, kind) ==
  { setup.asked[n].a : n \in { n \in 1..Len(setup.asked) : setup.asked[n].q = q /\ setup.asked[n].kind = kind } }

\* The validation requests made for a kind of token.
Validations(kind) == { v \in Range(setup.validated) : v.kind = kind }

\* The token typed for a kind passed validation, or failed it and was
\* confirmed with y (in either case) at "Save anyway?".
Accepted(kind, token) ==
  \/ \E v \in Validations(kind) : v.token = token /\ v.ok
  \/ /\ \E v \in Validations(kind) : v.token = token /\ ~v.ok
     /\ \E a \in AnswersTo("saveAnyway", kind) : ToLowerCase(a) = << "y" >>

\* C26: in the interactive setup the configuration file is written if and
\* only if the prompted configuration ends with a master or a user token,
\* and then with that configuration; a token is in the prompted
\* configuration only if it is the trimmed answer to its prompt, not blank,
\* and either its validation request returned ok or "Save anyway?" was
\* answered y; a token that failed validation and was not confirmed is not
\* in the file afterwards.
C26_TokensSavedOnlyWhenAccepted ==
  /\ setup.writes \in { 0, 1 }
  /\ ~SetupDone => (setup.writes = 0 /\ host.file = setup.before)
  /\ (SetupDone /\ AnswersTo("workspace", "") # {}) =>
       /\ setup.writes = 1 <=> HasTokens(setup.config)
       /\ setup.writes = 1 => host.file = File(setup.config)
       /\ setup.writes = 0 => host.file = setup.before
  /\ \A kind \in { "master", "user" } :
       /\ IsSome(TokenOf(setup.config, kind)) =>
            /\ \E a \in AnswersTo("token", kind) :
                 Trim(a) # <<>> /\ TokenOf(setup.config, kind) = Some(Trim(a))
            /\ Accepted(kind, Get(TokenOf(setup.config, kind)))
       /\ \A v \in Validations(kind) :
            (SetupDone /\ ~Accepted(kind, v.token)) =>
               /\ TokenOf(setup.config, kind) = None
               /\ setup.writes = 1 => TokenOf(host.file.config, kind) = None

\* The setup has written the file with a master token that was typed with
\* blanks around it, failed validation and was confirmed, while the user
\* token failed validation and was not confirmed.
C26_Witness ==
  /\ SetupDone
  /\ setup.writes = 1
  /\ << " ", "t", " " >> \in AnswersTo("token", "master")
  /\ host.file.config.masterToken = Some(<< "t" >>)
  /\ \E v \in Validations("master") : ~v.ok
  /\ \E v \in Validations("user") : ~v.ok
  /\ host.file.config.userToken = None
  /\ setup.before.exists /\ setup.before.valid /\ IsSome(setup.before.config.userToken)

\* The setup runs with --auto-setup.
AutoSetup == Includes(host.argv, "--auto-setup")

\* The configuration file the setup found holds a master or a user token.
HadTokens == HasTokens(loadExistingConfig(setup.before))

\* The reconfigure question was asked and not answered y (in either case).
Declined ==
  /\ AnswersTo("reconfigure", "") # {}
  /\ \A a \in AnswersTo("reconfigure", "") : ToLowerCase(a) # << "y" >>

\* C27: when the configuration file holds a master or a user token and the
\* reconfigure question is not answered y, the setup asks for no token (no
\* prompt but the reconfigure question), makes no validation request and
\* leaves the configuration file as it was; with --auto-setup the setup asks
\* nothing, validates nothing and never writes the file, whatever the file
\* holds.
C27_KeptConfigurationUntouched ==
  /\ (HadTokens /\ Declined) =>
       /\ \A n \in 1..Len(setup.asked) : setup.asked[n].q = "reconfigure"
       /\ Len(setup.asked) = 1
       /\ setup.validated = <<>>
       /\ requestCount = 0
       /\ setup.writes = 0
       /\ host.file = setup.before
       /\ setup.pc \in { "keep", "done" }
  /\ AutoSetup =>
       /\ setup.asked = <<>>
       /\ setup.validated = <<>>
       /\ requestCount = 0
       /\ setup.writes = 0
       /\ host.file = setup.before
       /\ setup.pc \in { "start", "done" }
  /\ (~AutoSetup /\ HadTokens /\ setup.pc \notin { "start", "check" }) =>
       AnswersTo("reconfigure", "") # {}

\* The setup found a file with both tokens, the reconfigure question was
\* answered with "yes", which is not y, and the setup has returned.
C27_Witness ==
  /\ SetupDone
  /\ ~AutoSetup
  /\ IsSome(setup.before.config.masterToken)
  /\ setup.asked = << Asked("reconfigure", "", << "y", "e", "s" >>) >>
  /\ fileReads = 4

\* The reconfiguration was gone through and the setup has returned.
Reconfigured == SetupDone /\ AnswersTo("workspace", "") # {}

\* C28: a reconfiguration that saves replaces the stored configuration as a
\* whole: the file then holds exactly the region chosen, the tokens accepted
\* and the workspace id entered in this run, and a token or a workspace id
\* that was stored before and skipped in this run is absent; a
\* reconfiguration in which no token is accepted leaves the file as it was.
C28_SaveReplacesWholesale ==
  Reconfigured =>
    LET regionAnswer == CHOOSE a \in AnswersTo("region", "") : TRUE
        workspaceAnswer == CHOOSE a \in AnswersTo("workspace", "") : TRUE
        AcceptedToken(kind) ==
          LET typed == { Trim(a) : a \in AnswersTo("token", kind) }
          IN IF \E t \in typed : t # <<>> /\ Accepted(kind, t)
             THEN Some(CHOOSE t \in typed : t # <<>> /\ Accepted(kind, t))
             ELSE None
        accepted ==
          WithWorkspace(Config(AcceptedToken("master"), AcceptedToken("user"), Some(RegionMap(regionAnswer))),
                        IF Trim(workspaceAnswer) # <<>> THEN Some(Trim(workspaceAnswer)) ELSE None)
    IN IF HasTokens(accepted)
       THEN /\ setup.writes = 1
            /\ host.file = File(accepted)
            /\ \A kind \in { "master", "user" } :
                 AcceptedToken(kind) = None => TokenOf(host.file.config, kind) = None
            /\ Trim(workspaceAnswer) = <<>> => host.file.config.workspaceId = None
       ELSE /\ setup.writes = 0
            /\ host.file = setup.before

\* A file with both tokens and a workspace id was reconfigured: only a
\* master token was accepted, the user token and the workspace id were
\* skipped, and the file now holds neither of the two.
C28_Witness ==
  /\ Reconfigured
  /\ IsSome(setup.before.config.userToken) /\ IsSome(setup.before.config.workspaceId)
  /\ host.file.config.masterToken = Some(<< "t" >>)
  /\ host.file.config.userToken = None
  /\ host.file.config.workspaceId = None
  /\ host.file.config.region = Some("us")
  /\ Validations("user") = {}
====
